---------------------------- MODULE Spec2Model ----------------------------
(***************************************************************************)
(* A model of the openmina node's state-machine kernel.                    *)
(*                                                                         *)
(* Part I: the transition-frontier sync state machine.  Every action's     *)
(* guard is its enabling condition from                                    *)
(* node/src/transition_frontier/sync/transition_frontier_sync_actions.rs;  *)
(* the state type, its accessors and the reducers live in files that are   *)
(* not part of the sources at hand and are modelled from the               *)
(* specification (section 4.2, 4.5, 4.6, 4.7).                             *)
(***************************************************************************)
EXTENDS Integers, Sequences, FiniteSets, TLC

VARIABLES
    sync,        \* state.transition_frontier.sync
    frontier,    \* state.transition_frontier.best_chain, as block hashes, root first
    blacklist,   \* state.transition_frontier.blacklist, its keys
    verified,    \* state.transition_frontier.candidates.best_verified_block()
    won_slot,    \* state.block_producer.producing_won_slot()
    peers,       \* state.p2p peers: ready flag and advertised best tip
    rpc,         \* per peer: the rpc channel's requests in flight and next id
    snark,       \* state.snark_pool.candidates: (peer, job) -> candidate state
    last,        \* the action accepted last (history, for stating the claims)
    node,        \* the State the top-level reducer is given, by sub-state
    conn,        \* a WebRTC connection of the p2p service: its task and events
    inbound,     \* a channel's inbound framing: the buffer and what it delivered
    outbound,    \* a channel's outbound sender: its queue and what it wrote
    events,      \* the event channel and the event receiver's queue
    testing,     \* a NodeTestingService: the real service's channels and the pending events
    ledger,      \* a transaction, the ledger it is applied to and the result
    pool,        \* state.snark_pool: the ids of the outstanding jobs
    core,        \* the process-wide work dir cell and the threads that use it
    work_verify, \* state.snark.work_verify: the verifier's requests in flight
    webrtc       \* the peers map entry of one peer id and the tasks of its connections

\* the variables of the sync state machine and of the node around it
syncVars == <<sync, frontier, blacklist, verified, won_slot, peers, rpc, snark, last>>

\* the variables of the kernel and of the services
otherVars ==
    <<node, conn, inbound, outbound, events, testing, ledger, pool, core, work_verify,
      webrtc>>

vars == <<syncVars, otherVars>>

----------------------------------------------------------------------------
(* Bounds of the model *)

\* rpc ids a peer connection hands out before the model stops sending requests
MaxRpcId == 2

----------------------------------------------------------------------------
(* Blocks.  A block is known by its state hash; the fields of the block    *)
(* the enabling conditions read are functions of the hash.                 *)

None == 0

Hashes == 1..7

Peers == {"p1", "p2"}

Jobs == {"j1", "j2"}

\* snark advertisements (SnarkInfo) for a job: fee and prover
Infos == { [fee |-> 1, prover |-> "a"], [fee |-> 2, prover |-> "a"],
           [fee |-> 1, prover |-> "b"] }

Me == "me"

\* header.protocol_state.body.consensus_state.blockchain_length
Height(h) == CASE h = 1 -> 1
               [] h = 2 -> 2
               [] h = 6 -> 2
               [] h = 7 -> 4
               [] OTHER -> 3

\* block.is_genesis()
is_genesis(h) == h = 1

\* The chain a block is on: blocks 5 and 6 fork from the others before the
\* short-range window, every other pair is a short-range fork.
Branch(h) == IF h \in {5, 6} THEN "b" ELSE "a"

\* relative minimum window density
Density(h) == IF h \in {5, 6} THEN 1 ELSE 2

\* digest of consensus_state.last_vrf_output
Vrf(h) == IF h = 4 THEN 2 ELSE 1

\* consensus_state.global_slot
GlobalSlot(h) == Height(h)

\* block.producer()
Producer(h) == IF h = 3 THEN Me ELSE "other"

\* root_block.snarked_ledger_hash()
snarked_ledger_hash(h) == IF h = 6 THEN "L2" ELSE "L1"

\* The best-tip certificates the network may present:
\* (best_tip, root_block, blocks_inbetween).
Cert(t, r, b) == [best_tip |-> t, root_block |-> r, blocks_inbetween |-> b]

Certs == { Cert(2, 1, <<>>), Cert(3, 1, <<2>>), Cert(4, 1, <<2>>),
           Cert(4, 2, <<>>), Cert(5, 1, <<6>>), Cert(5, 6, <<>>),
           Cert(7, 1, <<2, 3>>) }

\* The slots this node may have won: (global slot, vrf digest).
WonSlots == { [slot |-> 3, vrf |-> 2], [slot |-> 4, vrf |-> 1] }

Range(s) == { s[i] : i \in DOMAIN s }

----------------------------------------------------------------------------
(* Consensus (specification 4.7) *)

short_range_fork_take(tip, cand) ==
    IF Height(cand) # Height(tip) THEN Height(cand) > Height(tip)
    ELSE IF Vrf(cand) # Vrf(tip) THEN Vrf(cand) > Vrf(tip)
    ELSE cand > tip

long_range_fork_take(tip, cand) ==
    IF Density(cand) # Density(tip) THEN Density(cand) > Density(tip)
    ELSE short_range_fork_take(tip, cand)

is_short_range_fork(a, b) == Branch(a) = Branch(b)

consensus_take(tip, cand) ==
    IF is_short_range_fork(tip, cand)
    THEN short_range_fork_take(tip, cand)
    ELSE long_range_fork_take(tip, cand)

\* BlockProducerWonSlot compared with a block: by global slot, then vrf digest.
\* -1: the won slot is less, 0: equal, 1: greater.
won_slot_cmp(w, h) ==
    IF w.slot # GlobalSlot(h) THEN (IF w.slot < GlobalSlot(h) THEN -1 ELSE 1)
    ELSE IF w.vrf # Vrf(h) THEN (IF w.vrf < Vrf(h) THEN -1 ELSE 1)
    ELSE 0

\* SyncLedgerTarget::next_epoch(best_tip, root_block).is_some()
has_next_epoch(best_tip, root_block) == best_tip \in {4, 5}


----------------------------------------------------------------------------
(* The sync state (specification 4.2) and its accessors *)

LedgerPhases == {"StakingLedgerPending", "NextEpochLedgerPending", "RootLedgerPending"}

Phases == {"Idle", "Init", "StakingLedgerPending", "StakingLedgerSuccess",
           "NextEpochLedgerPending", "NextEpochLedgerSuccess",
           "RootLedgerPending", "RootLedgerSuccess", "BlocksPending",
           "BlocksSuccess", "CommitPending", "CommitSuccess", "Synced"}

\* PeerRpcState of one fetch attempt; "None": no attempt with that peer
Attempt(st, id) == [st |-> st, rpc_id |-> id]

NoAttempts == [p \in Peers |-> Attempt("None", None)]

\* TransitionFrontierSyncBlockState
BlockState(h, st, att) == [hash |-> h, st |-> st, attempts |-> att]

SyncState(phase, cert, ledger_ok, chain) ==
    [phase |-> phase, best_tip |-> cert.best_tip, root_block |-> cert.root_block,
     blocks_inbetween |-> cert.blocks_inbetween, ledger_ok |-> ledger_ok,
     chain |-> chain]

NoCert == Cert(None, None, <<>>)

SyncIdle == SyncState("Idle", NoCert, FALSE, <<>>)

SyncCert(s) == Cert(s.best_tip, s.root_block, s.blocks_inbetween)

\* TransitionFrontierSyncState::is_pending
is_pending(s) == s.phase \notin {"Idle", "Synced"}

\* TransitionFrontierSyncState::is_synced
is_synced(s) == s.phase = "Synced"

\* TransitionFrontierSyncState::best_tip
sync_best_tip(s) == IF s.phase \in {"Idle", "Synced"} THEN None ELSE s.best_tip

\* TransitionFrontierState::best_tip
frontier_best_tip(f) == IF f = <<>> THEN None ELSE f[Len(f)]

\* TransitionFrontierSyncState::blocks_iter
blocks_iter(s) == IF s.phase = "BlocksPending" THEN s.chain ELSE <<>>

is_apply_success(b) == b.st = "ApplySuccess"

is_apply_pending(b) == b.st = "ApplyPending"

is_fetch_success(b) == b.st = "FetchSuccess"

is_fetch_init_from_peer(b, p) ==
    b.st = "FetchPending" /\ b.attempts[p].st = "Init"

is_fetch_pending_from_peer(b, p, id) ==
    b.st = "FetchPending" /\ b.attempts[p].st = "Pending" /\ b.attempts[p].rpc_id = id

\* fetch_pending_fetched_block().is_some()
has_fetched_block(b) ==
    b.st = "FetchPending" /\ \E p \in Peers : b.attempts[p].st = "Success"

\* a missing block no peer was asked for yet
needs_fetch(b) ==
    b.st = "FetchPending" /\ \A p \in Peers : b.attempts[p].st = "None"

\* retry_hash().is_some(): every attempt made so far ended in an error
needs_retry(b) ==
    /\ b.st = "FetchPending"
    /\ \E p \in Peers : b.attempts[p].st # "None"
    /\ \A p \in Peers : b.attempts[p].st \in {"None", "Error"}

\* the first of a set of indices of a sequence, 0 when there is none
FirstIndex(S) == IF S = {} THEN 0 ELSE CHOOSE i \in S : \A j \in S : i <= j

\* block_state(hash): index in the chain, 0 when absent
block_index(s, h) ==
    LET c == blocks_iter(s)
    IN FirstIndex({ i \in DOMAIN c : c[i].hash = h })

\* blocks_fetch_next(): hash of the first block needing a first fetch
blocks_fetch_next(s) ==
    LET c == blocks_iter(s)
        i == FirstIndex({ j \in DOMAIN c : needs_fetch(c[j]) })
    IN IF i = 0 THEN None ELSE c[i].hash

\* blocks_fetch_retry_iter().next()
blocks_fetch_retry_next(s) ==
    LET c == blocks_iter(s)
        i == FirstIndex({ j \in DOMAIN c : needs_retry(c[j]) })
    IN IF i = 0 THEN None ELSE c[i].hash

\* blocks_apply_pending(): hash of the block being applied
blocks_apply_pending(s) ==
    LET c == blocks_iter(s)
        i == FirstIndex({ j \in DOMAIN c : is_apply_pending(c[j]) })
    IN IF i = 0 THEN None ELSE c[i].hash

\* blocks_apply_next(): the lowest fetched block whose parent is applied
blocks_apply_next(s) ==
    LET c == blocks_iter(s)
        Ok(i) == i > 1 /\ is_fetch_success(c[i]) /\ is_apply_success(c[i-1])
    IN IF \E i \in DOMAIN c : Ok(i)
       THEN c[CHOOSE i \in DOMAIN c : Ok(i) /\ \A j \in 1..(i-1) : ~Ok(j)].hash
       ELSE None

\* p2p.get_ready_peer(peer_id).is_some()
is_ready_peer(p) == peers[p].ready

\* P2pChannelsRpcState::can_send_request: the peer is below its limit
RpcLimit == 1

can_send_request(p) == rpc[p].inflight < RpcLimit

\* block_producer.is_me(producer)
is_me(producer) == producer = Me


----------------------------------------------------------------------------
(* Enabling conditions: TransitionFrontierSyncAction::is_enabled *)

Enabled_Init(c) ==
    /\ ~is_pending(sync)
    /\ ~is_synced(sync)
    /\ (frontier_best_tip(frontier) = None \/ c.best_tip # frontier_best_tip(frontier))
    /\ verified # None /\ c.best_tip = verified

\* BestTipUpdate_phase_ok without the exclusion of the commit phases
Mut_BestTipUpdate_phase_ok == is_pending(sync) \/ is_synced(sync)

\* the sync is running or done, and no commit has started
BestTipUpdate_phase_ok ==
    /\ (is_pending(sync) \/ is_synced(sync))
    /\ sync.phase \notin {"CommitPending", "CommitSuccess"}

\* the candidate differs from the frontier's and the target's best tip
BestTipUpdate_new_tip(c) ==
    /\ frontier_best_tip(frontier) # None /\ c.best_tip # frontier_best_tip(frontier)
    /\ (sync_best_tip(sync) = None \/ c.best_tip # sync_best_tip(sync))

\* sync.best_tip().or(transition_frontier.best_tip())
target_tip == IF sync_best_tip(sync) # None THEN sync_best_tip(sync)
              ELSE frontier_best_tip(frontier)

\* BestTipUpdate_consensus_ok without the consensus comparison
Mut_BestTipUpdate_consensus_ok(c) == target_tip # None

BestTipUpdate_consensus_ok(c) ==
    /\ target_tip # None
    /\ IF is_genesis(target_tip) /\ Height(c.best_tip) > Height(target_tip)
       THEN TRUE
       ELSE consensus_take(target_tip, c.best_tip)

\* BestTipUpdate_blacklist_ok without the check of blocks_inbetween
Mut_BestTipUpdate_blacklist_ok(c) ==
    /\ c.best_tip \notin blacklist
    /\ c.root_block \notin blacklist

BestTipUpdate_blacklist_ok(c) ==
    /\ c.best_tip \notin blacklist
    /\ c.root_block \notin blacklist
    /\ ~\E i \in DOMAIN c.blocks_inbetween : c.blocks_inbetween[i] \in blacklist

\* BestTipUpdate_producer_ok with won_slot <= best_tip for won_slot < best_tip
Mut_BestTipUpdate_producer_ok(c) ==
    LET w == IF is_me(Producer(c.best_tip)) THEN {} ELSE won_slot
    IN \A x \in w : won_slot_cmp(x, c.best_tip) <= 0

\* producing_won_slot().filter(|_| !is_me(best_tip.producer()))
\*     .is_none_or(|won_slot| won_slot < best_tip)
BestTipUpdate_producer_ok(c) ==
    LET w == IF is_me(Producer(c.best_tip)) THEN {} ELSE won_slot
    IN \A x \in w : won_slot_cmp(x, c.best_tip) < 0

Enabled_BestTipUpdate(c) ==
    /\ BestTipUpdate_phase_ok
    /\ BestTipUpdate_new_tip(c)
    /\ BestTipUpdate_consensus_ok(c)
    /\ BestTipUpdate_blacklist_ok(c)
    /\ BestTipUpdate_producer_ok(c)

Enabled_LedgerStakingPending == sync.phase = "Init"

Enabled_LedgerStakingSuccess ==
    sync.phase = "StakingLedgerPending" /\ sync.ledger_ok

Enabled_LedgerNextEpochPending ==
    /\ sync.phase \in {"Init", "StakingLedgerSuccess"}
    /\ has_next_epoch(sync.best_tip, sync.root_block)

Enabled_LedgerNextEpochSuccess ==
    sync.phase = "NextEpochLedgerPending" /\ sync.ledger_ok

\* Enabled_LedgerRootPending without the test that no next-epoch target exists
Mut_Enabled_LedgerRootPending ==
    sync.phase \in {"Init", "StakingLedgerSuccess", "NextEpochLedgerSuccess"}

Enabled_LedgerRootPending ==
    \/ /\ sync.phase \in {"Init", "StakingLedgerSuccess"}
       /\ ~has_next_epoch(sync.best_tip, sync.root_block)
    \/ sync.phase = "NextEpochLedgerSuccess"

Enabled_LedgerRootSuccess ==
    sync.phase = "RootLedgerPending" /\ sync.ledger_ok

Enabled_BlocksPending == sync.phase = "RootLedgerSuccess"

Enabled_BlocksPeersQuery ==
    /\ \E p \in Peers : is_ready_peer(p) /\ can_send_request(p)
    /\ (blocks_fetch_next(sync) # None \/ blocks_fetch_retry_next(sync) # None)

\* check_peer_available without can_send_request()
Mut_check_peer_available(p) ==
    /\ is_ready_peer(p)
    /\ sync_best_tip(sync) # None
    /\ peers[p].best_tip # None
    /\ sync_best_tip(sync) = peers[p].best_tip

\* get_ready_peer(peer_id), with the target's best tip as its own, able to send
check_peer_available(p) ==
    /\ is_ready_peer(p)
    /\ sync_best_tip(sync) # None
    /\ peers[p].best_tip # None
    /\ sync_best_tip(sync) = peers[p].best_tip
    /\ can_send_request(p)

\* Enabled_BlocksPeerQueryInit for any block that needs a first fetch, and a
\* ready peer that can send whatever best tip it advertises
Mut_Enabled_BlocksPeerQueryInit(h, p) ==
    /\ \E i \in DOMAIN blocks_iter(sync) :
          blocks_iter(sync)[i].hash = h /\ needs_fetch(blocks_iter(sync)[i])
    /\ is_ready_peer(p) /\ can_send_request(p)

Enabled_BlocksPeerQueryInit(h, p) ==
    /\ blocks_fetch_next(sync) # None /\ blocks_fetch_next(sync) = h
    /\ check_peer_available(p)

Enabled_BlocksPeerQueryRetry(h, p) ==
    /\ blocks_fetch_retry_next(sync) # None /\ blocks_fetch_retry_next(sync) = h
    /\ check_peer_available(p)

Enabled_BlocksPeerQueryPending(h, p) ==
    /\ block_index(sync, h) # 0
    /\ is_fetch_init_from_peer(blocks_iter(sync)[block_index(sync, h)], p)

Enabled_BlocksPeerQueryError(p, id) ==
    \E i \in DOMAIN blocks_iter(sync) :
        is_fetch_pending_from_peer(blocks_iter(sync)[i], p, id)

\* Enabled_BlocksPeerQuerySuccess for a fetch pending from the peer under any
\* rpc id
Mut_Enabled_BlocksPeerQuerySuccess(p, id, h) ==
    /\ block_index(sync, h) # 0
    /\ blocks_iter(sync)[block_index(sync, h)].st = "FetchPending"
    /\ blocks_iter(sync)[block_index(sync, h)].attempts[p].st = "Pending"

Enabled_BlocksPeerQuerySuccess(p, id, h) ==
    /\ block_index(sync, h) # 0
    /\ is_fetch_pending_from_peer(blocks_iter(sync)[block_index(sync, h)], p, id)
    /\ blocks_iter(sync)[block_index(sync, h)].hash = h

\* Enabled_BlocksFetchSuccess asking for the block from every peer
Mut_Enabled_BlocksFetchSuccess(h) ==
    /\ block_index(sync, h) # 0
    /\ blocks_iter(sync)[block_index(sync, h)].st = "FetchPending"
    /\ \A p \in Peers :
          blocks_iter(sync)[block_index(sync, h)].attempts[p].st = "Success"

Enabled_BlocksFetchSuccess(h) ==
    /\ block_index(sync, h) # 0
    /\ has_fetched_block(blocks_iter(sync)[block_index(sync, h)])

Enabled_BlocksNextApplyInit == blocks_apply_next(sync) # None

\* Enabled_BlocksNextApplyPending for any fetched block of the chain
Mut_Enabled_BlocksNextApplyPending(h) ==
    \E i \in DOMAIN blocks_iter(sync) :
        blocks_iter(sync)[i].hash = h /\ is_fetch_success(blocks_iter(sync)[i])

Enabled_BlocksNextApplyPending(h) ==
    blocks_apply_next(sync) # None /\ blocks_apply_next(sync) = h

Enabled_BlocksNextApplyError(h) ==
    blocks_apply_pending(sync) # None /\ blocks_apply_pending(sync) = h

Enabled_BlocksNextApplySuccess(h) ==
    blocks_apply_pending(sync) # None /\ blocks_apply_pending(sync) = h

\* Enabled_BlocksSuccess with any() for all()
Mut_Enabled_BlocksSuccess ==
    /\ sync.phase = "BlocksPending"
    /\ \E i \in DOMAIN sync.chain : is_apply_success(sync.chain[i])

Enabled_BlocksSuccess ==
    /\ sync.phase = "BlocksPending"
    /\ \A i \in DOMAIN sync.chain : is_apply_success(sync.chain[i])

Enabled_CommitInit == sync.phase = "BlocksSuccess"

Enabled_CommitPending == sync.phase = "BlocksSuccess"

Enabled_CommitSuccess == sync.phase = "CommitPending"



----------------------------------------------------------------------------
(* Enabling conditions: SnarkPoolCandidateAction::is_enabled *)

\* snark_pool.contains(job_id): the job is outstanding
snark_pool_contains(j) == j \in pool

\* tie_breaker_hash(job_id, prover)
tie_breaker_hash(prover) == IF prover = "a" THEN 1 ELSE 2

\* info > v: a lower fee is better, then the greater tie breaker
info_gt(info, v) ==
    \/ info.fee < v.fee
    \/ info.fee = v.fee /\ tie_breaker_hash(info.prover) > tie_breaker_hash(v.prover)

\* the mutant also accepts an advertisement equal to the stored one
Mut_Enabled_InfoReceived(p, j, info) ==
    /\ snark_pool_contains(j)
    /\ (snark[p][j].st = "None" \/ ~info_gt(snark[p][j], info))

Enabled_InfoReceived(p, j, info) ==
    /\ snark_pool_contains(j)
    /\ (snark[p][j].st = "None" \/ info_gt(info, snark[p][j]))

Enabled_WorkFetchInit(p, j) ==
    /\ is_ready_peer(p) /\ can_send_request(p)
    /\ snark[p][j].st = "InfoReceived"

Enabled_WorkFetchPending(p, j) == snark[p][j].st = "InfoReceived"

----------------------------------------------------------------------------
(* Reducers of the sync state machine (specification 4.2) *)

NoPeer == "none"

\* what `last` records of an accepted action: its kind, the phase it was
\* accepted in, its peer and hash, and the tip a best tip update competed with
Note(kind, peer, hash, tip) ==
    [kind |-> kind, from |-> sync.phase, peer |-> peer, hash |-> hash, tip |-> tip]

\* an action of the node around the state machines
EnvNote == [kind |-> "env", from |-> "Idle", peer |-> NoPeer, hash |-> None,
            tip |-> None]

\* chain with the state of the block at index i replaced
SetBlock(chain, i, b) == [chain EXCEPT ![i] = b]

SetAttempt(b, p, a) == [b EXCEPT !.attempts[p] = a]

\* The state a block of a new chain starts in: a block of the chain being
\* synced keeps its state, a block of the frontier is applied already.
NewBlock(h, old, fresh) ==
    LET i == FirstIndex({ j \in DOMAIN old : old[j].hash = h })
    IN IF i # 0
       THEN (IF old[i].st = "FetchPending" /\ fresh = "FetchSuccess"
             THEN BlockState(h, "FetchSuccess", NoAttempts) ELSE old[i])
       ELSE IF h \in Range(frontier) THEN BlockState(h, "ApplySuccess", NoAttempts)
       ELSE BlockState(h, fresh, NoAttempts)

\* The chain of a target: the root (applied: its ledger was synced), the blocks
\* in between and the best tip (its block is at hand).
NewChain(c, old) ==
    <<BlockState(c.root_block, "ApplySuccess", NoAttempts)>>
    \o [i \in DOMAIN c.blocks_inbetween |->
            NewBlock(c.blocks_inbetween[i], old, "FetchPending")]
    \o <<NewBlock(c.best_tip, old, "FetchSuccess")>>

\* BestTipUpdate's previous_root_snarked_ledger_hash
previous_root_snarked_ledger_hash ==
    IF is_pending(sync) THEN snarked_ledger_hash(sync.root_block)
    ELSE IF frontier # <<>> THEN snarked_ledger_hash(frontier[1])
    ELSE "none"

\* The sync state after a best tip update: the new target replaces the old one;
\* what was synced of the root ledger is kept when the new root has the same
\* snarked ledger, and the sync starts over when it has not.
BestTipUpdate_reduce(c) ==
    LET same == snarked_ledger_hash(c.root_block) = previous_root_snarked_ledger_hash
    IN IF ~same THEN SyncState("Init", c, FALSE, <<>>)
       ELSE IF sync.phase \in {"BlocksPending", "BlocksSuccess"}
            THEN SyncState("BlocksPending", c, TRUE, NewChain(c, sync.chain))
       ELSE IF sync.phase = "Synced"
            THEN SyncState("BlocksPending", c, TRUE, NewChain(c, <<>>))
       ELSE SyncState(sync.phase, c, sync.ledger_ok, <<>>)

SetPhase(phase) == [sync EXCEPT !.phase = phase, !.ledger_ok = FALSE]

UpdateBlock(h, b) ==
    [sync EXCEPT !.chain = SetBlock(sync.chain, block_index(sync, h), b)]

TheBlock(h) == sync.chain[block_index(sync, h)]

\* blocks of the chain from the one with hash h on
ForkFrom(h) ==
    { sync.chain[i].hash : i \in { j \in DOMAIN sync.chain : j >= block_index(sync, h) } }

----------------------------------------------------------------------------
(* Actions of the sync state machine *)

\* an action that changes the sync state alone
SyncOnly(kind, peer, hash) ==
    /\ last' = Note(kind, peer, hash, None)
    /\ UNCHANGED <<frontier, blacklist, verified, won_slot, peers, rpc, snark, otherVars>>

\* an action of the node around the sync state machine
EnvOnly == last' = EnvNote /\ UNCHANGED otherVars

Init_(c) ==
    /\ Enabled_Init(c)
    /\ sync' = SyncState("Init", c, FALSE, <<>>)
    /\ SyncOnly("Init", NoPeer, None)

\* The candidate presented is the best verified block.
BestTipUpdate(c) ==
    /\ Enabled_BestTipUpdate(c)
    /\ sync' = BestTipUpdate_reduce(c)
    /\ verified' = c.best_tip
    /\ last' = Note("BestTipUpdate", NoPeer, None, target_tip)
    /\ UNCHANGED <<frontier, blacklist, won_slot, peers, rpc, snark, otherVars>>

LedgerStakingPending ==
    /\ Enabled_LedgerStakingPending
    /\ sync' = SetPhase("StakingLedgerPending")
    /\ SyncOnly("LedgerStakingPending", NoPeer, None)

\* TransitionFrontierSyncLedgerAction::Success: the ledger being synced is complete
LedgerSyncSuccess ==
    /\ sync.phase \in LedgerPhases /\ ~sync.ledger_ok
    /\ sync' = [sync EXCEPT !.ledger_ok = TRUE]
    /\ SyncOnly("LedgerSyncSuccess", NoPeer, None)

LedgerStakingSuccess ==
    /\ Enabled_LedgerStakingSuccess
    /\ sync' = SetPhase("StakingLedgerSuccess")
    /\ SyncOnly("LedgerStakingSuccess", NoPeer, None)

LedgerNextEpochPending ==
    /\ Enabled_LedgerNextEpochPending
    /\ sync' = SetPhase("NextEpochLedgerPending")
    /\ SyncOnly("LedgerNextEpochPending", NoPeer, None)

LedgerNextEpochSuccess ==
    /\ Enabled_LedgerNextEpochSuccess
    /\ sync' = SetPhase("NextEpochLedgerSuccess")
    /\ SyncOnly("LedgerNextEpochSuccess", NoPeer, None)

LedgerRootPending ==
    /\ Enabled_LedgerRootPending
    /\ sync' = SetPhase("RootLedgerPending")
    /\ SyncOnly("LedgerRootPending", NoPeer, None)

LedgerRootSuccess ==
    /\ Enabled_LedgerRootSuccess
    /\ sync' = SetPhase("RootLedgerSuccess")
    /\ SyncOnly("LedgerRootSuccess", NoPeer, None)

BlocksPending ==
    /\ Enabled_BlocksPending
    /\ sync' = SyncState("BlocksPending", SyncCert(sync), TRUE,
                         NewChain(SyncCert(sync), <<>>))
    /\ SyncOnly("BlocksPending", NoPeer, None)

\* P2pChannelsRpcAction::RequestSend: the request goes out on the peer's rpc
\* channel, which hands out the next id.
SendRequest(p) ==
    rpc' = [rpc EXCEPT ![p] = [inflight |-> @.inflight + 1, next_id |-> @.next_id + 1]]

BlocksPeerQueryInit(h, p) ==
    /\ Enabled_BlocksPeerQueryInit(h, p)
    /\ rpc[p].next_id <= MaxRpcId
    /\ sync' = UpdateBlock(h, SetAttempt(TheBlock(h), p, Attempt("Init", None)))
    /\ SendRequest(p)
    /\ last' = Note("BlocksPeerQueryInit", p, h, None)
    /\ UNCHANGED <<frontier, blacklist, verified, won_slot, peers, snark, otherVars>>

BlocksPeerQueryRetry(h, p) ==
    /\ Enabled_BlocksPeerQueryRetry(h, p)
    /\ rpc[p].next_id <= MaxRpcId
    /\ sync' = UpdateBlock(h, SetAttempt(TheBlock(h), p, Attempt("Init", None)))
    /\ SendRequest(p)
    /\ last' = Note("BlocksPeerQueryRetry", p, h, None)
    /\ UNCHANGED <<frontier, blacklist, verified, won_slot, peers, snark, otherVars>>

\* rpc_id: the id the channel gave the request sent last
BlocksPeerQueryPending(h, p) ==
    /\ Enabled_BlocksPeerQueryPending(h, p)
    /\ sync' = UpdateBlock(h, SetAttempt(TheBlock(h), p,
                                         Attempt("Pending", rpc[p].next_id - 1)))
    /\ SyncOnly("BlocksPeerQueryPending", p, h)

BlocksPeerQueryError(p, id) ==
    /\ Enabled_BlocksPeerQueryError(p, id)
    /\ LET i == FirstIndex({ j \in DOMAIN sync.chain :
                                is_fetch_pending_from_peer(sync.chain[j], p, id) })
       IN /\ sync' = [sync EXCEPT !.chain =
                        SetBlock(sync.chain, i,
                                 SetAttempt(sync.chain[i], p, Attempt("Error", id)))]
          /\ SyncOnly("BlocksPeerQueryError", p, sync.chain[i].hash)

BlocksPeerQuerySuccess(p, id, h) ==
    /\ Enabled_BlocksPeerQuerySuccess(p, id, h)
    /\ sync' = UpdateBlock(h, SetAttempt(TheBlock(h), p, Attempt("Success", id)))
    /\ SyncOnly("BlocksPeerQuerySuccess", p, h)

BlocksFetchSuccess(h) ==
    /\ Enabled_BlocksFetchSuccess(h)
    /\ sync' = UpdateBlock(h, BlockState(h, "FetchSuccess", NoAttempts))
    /\ SyncOnly("BlocksFetchSuccess", NoPeer, h)

BlocksNextApplyPending(h) ==
    /\ Enabled_BlocksNextApplyPending(h)
    /\ sync' = UpdateBlock(h, BlockState(h, "ApplyPending", NoAttempts))
    /\ SyncOnly("BlocksNextApplyPending", NoPeer, h)

\* The block is marked failed; it and the fork built on it are blacklisted.
BlocksNextApplyError(h) ==
    /\ Enabled_BlocksNextApplyError(h)
    /\ sync' = UpdateBlock(h, BlockState(h, "ApplyError", NoAttempts))
    /\ blacklist' = blacklist \cup ForkFrom(h)
    /\ last' = Note("BlocksNextApplyError", NoPeer, h, None)
    /\ UNCHANGED <<frontier, verified, won_slot, peers, rpc, snark, otherVars>>

BlocksNextApplySuccess(h) ==
    /\ Enabled_BlocksNextApplySuccess(h)
    /\ sync' = UpdateBlock(h, BlockState(h, "ApplySuccess", NoAttempts))
    /\ SyncOnly("BlocksNextApplySuccess", NoPeer, h)

BlocksSuccess ==
    /\ Enabled_BlocksSuccess
    /\ sync' = [sync EXCEPT !.phase = "BlocksSuccess"]
    /\ SyncOnly("BlocksSuccess", NoPeer, None)

CommitPending ==
    /\ Enabled_CommitPending
    /\ sync' = [sync EXCEPT !.phase = "CommitPending"]
    /\ SyncOnly("CommitPending", NoPeer, None)

CommitSuccess ==
    /\ Enabled_CommitSuccess
    /\ sync' = [sync EXCEPT !.phase = "CommitSuccess"]
    /\ SyncOnly("CommitSuccess", NoPeer, None)

\* TransitionFrontierAction::Synced: the committed chain becomes the frontier
\* and the blacklist is pruned of the blocks older than the new root.
Synced ==
    /\ sync.phase = "CommitSuccess"
    /\ frontier' = [i \in DOMAIN sync.chain |-> sync.chain[i].hash]
    /\ blacklist' = { h \in blacklist : GlobalSlot(h) >= GlobalSlot(sync.root_block) }
    /\ sync' = SyncState("Synced", NoCert, FALSE, <<>>)
    /\ last' = Note("Synced", NoPeer, None, None)
    /\ UNCHANGED <<verified, won_slot, peers, rpc, snark, otherVars>>

----------------------------------------------------------------------------
(* Actions of the snark pool candidates (specification 3.6, 4.6) *)

Candidate(st, info) ==
    [st |-> st, fee |-> info.fee, prover |-> info.prover, verify_id |-> 0]

NoCandidate == [st |-> "None", fee |-> 0, prover |-> "none", verify_id |-> 0]

InfoReceived(p, j, info) ==
    /\ Enabled_InfoReceived(p, j, info)
    /\ snark' = [snark EXCEPT ![p][j] = Candidate("InfoReceived", info)]
    /\ last' = Note("InfoReceived", p, None, None)
    /\ UNCHANGED <<sync, frontier, blacklist, verified, won_slot, peers, rpc, otherVars>>

WorkFetchInit(p, j) ==
    /\ Enabled_WorkFetchInit(p, j)
    /\ rpc[p].next_id <= MaxRpcId
    /\ SendRequest(p)
    /\ last' = Note("WorkFetchInit", p, None, None)
    /\ UNCHANGED <<sync, frontier, blacklist, verified, won_slot, peers, snark, otherVars>>

WorkFetchPending(p, j) ==
    /\ Enabled_WorkFetchPending(p, j)
    /\ snark' = [snark EXCEPT ![p][j].st = "WorkFetchPending"]
    /\ last' = Note("WorkFetchPending", p, None, None)
    /\ UNCHANGED <<sync, frontier, blacklist, verified, won_slot, peers, rpc, otherVars>>

----------------------------------------------------------------------------
(* The node around the state machines *)

\* TransitionFrontierAction::GenesisInject: the genesis block becomes the
\* frontier of a node that has none, and the node is synced to it
GenesisInject ==
    /\ frontier = <<>> /\ sync.phase = "Idle"
    /\ frontier' = <<1>>
    /\ sync' = SyncState("Synced", NoCert, FALSE, <<>>)
    /\ EnvOnly
    /\ UNCHANGED <<blacklist, verified, won_slot, peers, rpc, snark>>

\* A candidate block is verified and is the best one.  Nothing reads the
\* candidates once a sync has started, but a best tip update, which presents
\* the best one.
CandidateVerified(h) ==
    /\ sync.phase \in {"Idle", "Synced"} /\ verified = None /\ h \notin blacklist
    /\ verified' = h
    /\ EnvOnly
    /\ UNCHANGED <<sync, frontier, blacklist, won_slot, peers, rpc, snark>>

\* the block producer starts producing a block for a slot it won
WonSlotProduceInit(w) ==
    /\ won_slot = {}
    /\ won_slot' = {w}
    /\ EnvOnly
    /\ UNCHANGED <<sync, frontier, blacklist, verified, peers, rpc, snark>>

\* the block is produced, or the slot is discarded
WonSlotDone ==
    /\ won_slot # {}
    /\ won_slot' = {}
    /\ EnvOnly
    /\ UNCHANGED <<sync, frontier, blacklist, verified, peers, rpc, snark>>

\* a peer becomes ready, or a ready peer advertises a best tip
PeerBestTip(p, h) ==
    /\ peers[p].best_tip # h \/ ~peers[p].ready
    /\ peers' = [peers EXCEPT ![p] = [ready |-> TRUE, best_tip |-> h]]
    /\ EnvOnly
    /\ UNCHANGED <<sync, frontier, blacklist, verified, won_slot, rpc, snark>>

\* a ready peer disconnects; its channels are gone with it
PeerDisconnect(p) ==
    /\ peers[p].ready
    /\ peers' = [peers EXCEPT ![p] = [ready |-> FALSE, best_tip |-> None]]
    /\ rpc' = [rpc EXCEPT ![p].inflight = 0]
    /\ EnvOnly
    /\ UNCHANGED <<sync, frontier, blacklist, verified, won_slot, snark>>

\* the response to (or the timeout of) a request frees the peer's channel
RpcResponseReceived(p) ==
    /\ rpc[p].inflight > 0
    /\ rpc' = [rpc EXCEPT ![p].inflight = @ - 1]
    /\ EnvOnly
    /\ UNCHANGED <<sync, frontier, blacklist, verified, won_slot, peers, snark>>

TipHashes == { c.best_tip : c \in Certs }

\* the peers that connect; the others are known and never ready
Connecting == {"p1"}

RpcIds == 1..MaxRpcId

----------------------------------------------------------------------------
(* The kernel and the services at rest *)

\* the sub-states of State; a sub-state is abstracted to a version
SubStates ==
    {"ledger", "snark", "transition_frontier", "snark_pool", "transaction_pool",
     "block_producer", "external_snark_worker", "rpc", "watched_accounts"}

\* State at the start of the node: p2p is P2p::Pending, no action applied
StateInit ==
    [p2p |-> [ready |-> FALSE, v |-> 0],
     sub |-> [f \in SubStates |-> 0],
     last_action |-> "None",
     applied_actions_count |-> 0]

\* the State, the actions the reducer pushed to the dispatcher in the last
\* dispatch, and the action dispatched last (history)
NodeInit == [state |-> StateInit, pushed |-> <<>>, action |-> "None"]

\* no peer added: no entry in the peers map, no task, no connection
ConnIdle ==
    [in_map       |-> FALSE,     \* the peer has an entry in the peers map
     added        |-> FALSE,     \* Cmd::PeerAdd was sent for the peer
     kind         |-> "Outgoing",
     task         |-> "None",    \* where the peer task (peer_start) is
     wrapper      |-> "None",    \* where the task spawned for PeerAdd is
     cmds         |-> <<>>,      \* the peer's command channel
     internal     |-> <<>>,      \* the peer loop's internal command channel
     ncmds        |-> 0,         \* commands sent to the peer so far
     state        |-> "New",     \* pc.connection_state()
     connected_tx |-> "none",    \* the oneshot of the connection state handler
     remote_auth  |-> "unset",   \* the oneshot of the main channel's handler
     auth_cmd     |-> "none",    \* the command received before the exchange
     local_auth   |-> "none",    \* the send of the local authentication
     open_task    |-> FALSE,     \* a channel-open task runs
     listed       |-> FALSE,     \* the channel is in the peer loop's channels
     handler      |-> FALSE,     \* the channel's on_message handler is live
     sender       |-> FALSE,     \* the channel's outbound sender task runs
     sendq        |-> 0,         \* messages queued for the sender task
     nin          |-> 0,         \* inbound messages so far
     pc           |-> "None",    \* the RTCConnection
     closed_sent  |-> FALSE,     \* the closed task has emitted Closed
     events       |-> <<>>]      \* the events emitted, in order (history)

\* no channel open: nothing framed, nothing received
InboundIdle ==
    [frames    |-> <<>>,    \* the frames the remote wrote, in order
     stream    |-> <<>>,    \* their bytes not yet handed to on_message
     data      |-> <<>>,    \* the rest of the data of the running callback
     buf       |-> <<>>,    \* process_msg's buf
     len       |-> 0,       \* process_msg's len
     delivered |-> <<>>]    \* the results sent in Received events, in order

NoMsg == [id |-> 0, size |-> 0]

\* no channel open: no sender task, nothing queued, nothing written
OutboundIdle ==
    [running |-> FALSE,    \* the sender task runs
     queue   |-> <<>>,     \* the messages sent to the task, not yet received
     sizes   |-> <<>>,     \* the lengths of the messages queued so far
     cur     |-> NoMsg,    \* the message in transmission
     off     |-> 0,        \* the offset of its next chunk
     log     |-> <<>>]     \* the chunks written and the Sent events, in order

\* EventReceiver::from(rx): an empty channel and an empty queue
EventsIdle ==
    [rx        |-> <<>>,     \* the events in the channel
     queue     |-> <<>>,     \* EventReceiver::queue
     senders   |-> TRUE,     \* a sender of the channel is alive
     nsent     |-> 0,        \* events sent so far; the n-th event sent is n
     waiting   |-> FALSE,    \* wait_for_events is suspended in rx.recv()
     wait_res  |-> "None",   \* the result of the last wait_for_events
     ok_fresh  |-> FALSE,    \* it was Ok and no try_next was called since
     has       |-> FALSE,    \* the result of the last has_next
     try_res   |-> "None",   \* the last try_next: "Some", "Empty", "None"
     try_after_ok |-> FALSE, \* the last try_next was the next after an Ok
     handed    |-> <<>>]     \* the events try_next returned, in order

\* NodeTestingService::new: not a replay, nothing pending
TestingIdle ==
    [is_replay |-> FALSE,
     rx        |-> <<>>,    \* real.event_receiver(): the events not yet pulled
     rpc_rx    |-> 0,       \* real.rpc_receiver(): the requests not yet processed
     pending_events |-> <<>>,  \* the pending events with their ids, oldest first
     next_id   |-> 0,       \* pending_events.next_id
     issued    |-> <<>>,    \* history: the ids add returned, in order
     taken     |-> <<>>,    \* history: what the last take_pending_event removed
     panicked  |-> FALSE,   \* an unwrap of next_pending_event found no event
     in_next   |-> FALSE,   \* next_pending_event is in its loop
     returned  |-> "None",  \* what the last next_pending_event returned
     nsent     |-> 0,       \* events and requests sent so far
     added     |-> <<>>]    \* history: the events added during a replay, and the path

\* no transaction applied yet
LedgerIdle == [op |-> "None"]

\* one job is outstanding
PoolIdle == {"j1"}

\* connections to the peer id that the model initiates
MaxInits == 2

\* no connection to the peer id was initiated
WebrtcIdle ==
    [peers  |-> 0,       \* the connection whose PeerState is in the peers map, 0: none
     inits  |-> 0,       \* connections initiated so far
     cmds   |-> <<>>,    \* the Cmd::PeerAdd in the service's command channel
     tasks  |-> [g \in 1..MaxInits |-> [pc |-> "None", stage |-> 0, closed |-> "None"]],
     log    |-> <<>>]    \* the initiations and the events emitted, in order (history)

\* the verifier has no request and the first request gets the id 1
WorkVerifyIdle == [next_id |-> 1, jobs |-> {}]

\* the work dir is not set and no thread has called anything
CoreIdle ==
    [state |-> "Incomplete", value |-> "none", first |-> "none",
     threads |-> [t \in {"t1", "t2"} |->
                    [pc |-> "idle", op |-> "none", dir |-> "none", got |-> "none",
                     calls |-> 0]]]

OtherIdle ==
    /\ node = NodeInit
    /\ conn = ConnIdle
    /\ inbound = InboundIdle
    /\ outbound = OutboundIdle
    /\ events = EventsIdle
    /\ testing = TestingIdle
    /\ ledger = LedgerIdle
    /\ pool = PoolIdle
    /\ core = CoreIdle /\ work_verify = WorkVerifyIdle
    /\ webrtc = WebrtcIdle

----------------------------------------------------------------------------
(* The sync of a node from its start: one peer connects and advertises the  *)
(* target's best tip.                                                       *)

SyncNext ==
    \/ \E c \in Certs : Init_(c)
    \/ \E c \in Certs : BestTipUpdate(c)
    \/ LedgerStakingPending
    \/ LedgerSyncSuccess
    \/ LedgerStakingSuccess
    \/ LedgerNextEpochPending
    \/ LedgerNextEpochSuccess
    \/ LedgerRootPending
    \/ LedgerRootSuccess
    \/ BlocksPending
    \/ \E h \in Hashes, p \in Peers : BlocksPeerQueryInit(h, p)
    \/ \E h \in Hashes, p \in Peers : BlocksPeerQueryRetry(h, p)
    \/ \E h \in Hashes, p \in Peers : BlocksPeerQueryPending(h, p)
    \/ \E p \in Peers, id \in RpcIds : BlocksPeerQueryError(p, id)
    \/ \E p \in Peers, id \in RpcIds, h \in Hashes : BlocksPeerQuerySuccess(p, id, h)
    \/ \E h \in Hashes : BlocksFetchSuccess(h)
    \/ \E h \in Hashes : BlocksNextApplyPending(h)
    \/ \E h \in Hashes : BlocksNextApplyError(h)
    \/ \E h \in Hashes : BlocksNextApplySuccess(h)
    \/ BlocksSuccess
    \/ CommitPending
    \/ CommitSuccess
    \/ Synced

NodeNext ==
    \/ GenesisInject
    \/ \E h \in TipHashes : CandidateVerified(h)
    \/ \E w \in WonSlots : WonSlotProduceInit(w)
    \/ WonSlotDone
    \/ \E p \in Connecting :
          sync_best_tip(sync) # None /\ PeerBestTip(p, sync_best_tip(sync))
    \/ \E p \in Connecting : RpcResponseReceived(p)

Init ==
    /\ sync = SyncIdle
    /\ frontier = <<>>
    /\ blacklist = {}
    /\ verified = None
    /\ won_slot = {}
    /\ peers = [p \in Peers |-> [ready |-> FALSE, best_tip |-> None]]
    /\ rpc = [p \in Peers |-> [inflight |-> 0, next_id |-> 1]]
    /\ snark = [p \in Peers |-> [j \in Jobs |-> NoCandidate]]
    /\ last = EnvNote
    /\ OtherIdle

Next == SyncNext \/ NodeNext

Spec == Init /\ [][Next]_vars

----------------------------------------------------------------------------
(* The fetch of the blocks of a target: both peers connect, advertise any  *)
(* best tip and are asked for blocks and for snark work.                    *)

\* the targets with several blocks to fetch
FetchCerts == { c \in Certs : Len(c.blocks_inbetween) >= 2 }

\* the best tips the peers advertise: the targets', and another one
FetchTips == { c.best_tip : c \in FetchCerts } \cup {4}

\* the node right after BlocksPending, as the sync of a node from its start
\* reaches it
FetchInit ==
    /\ frontier = <<>>
    /\ \E c \in FetchCerts :
          /\ sync = SyncState("BlocksPending", c, TRUE, NewChain(c, <<>>))
          /\ verified = c.best_tip
    /\ blacklist = {}
    /\ won_slot = {}
    /\ peers = [p \in Peers |-> [ready |-> FALSE, best_tip |-> None]]
    /\ rpc = [p \in Peers |-> [inflight |-> 0, next_id |-> 1]]
    /\ snark = [p \in Peers |-> [j \in Jobs |-> NoCandidate]]
    /\ last = [kind |-> "BlocksPending", from |-> "RootLedgerSuccess",
               peer |-> NoPeer, hash |-> None, tip |-> None]
    /\ OtherIdle

FetchNext ==
    \/ \E h \in Hashes, p \in Peers : BlocksPeerQueryInit(h, p)
    \/ \E h \in Hashes, p \in Peers : BlocksPeerQueryRetry(h, p)
    \/ \E h \in Hashes, p \in Peers : BlocksPeerQueryPending(h, p)
    \/ \E p \in Peers, id \in RpcIds : BlocksPeerQueryError(p, id)
    \/ \E p \in Peers, id \in RpcIds, h \in Hashes : BlocksPeerQuerySuccess(p, id, h)
    \/ \E h \in Hashes : BlocksFetchSuccess(h)
    \/ \E p \in Connecting, j \in Jobs, info \in Infos : InfoReceived(p, j, info)
    \/ \E p \in Peers, j \in Jobs : WorkFetchInit(p, j)
    \/ \E p \in Peers, j \in Jobs : WorkFetchPending(p, j)
    \/ \E p \in Connecting, h \in FetchTips : PeerBestTip(p, h)
    \/ \E p \in Connecting : PeerDisconnect(p)
    \/ \E p \in Connecting : RpcResponseReceived(p)

SpecFetch == FetchInit /\ [][FetchNext]_vars

----------------------------------------------------------------------------
(* The sync from BlocksPending on, with a live peer: the peer is ready,     *)
(* advertises the target's best tip and serves every block asked for; no   *)
(* best tip update arrives.  The ledger service applies a block or rejects  *)
(* it.                                                                      *)

LiveInit ==
    /\ frontier = <<>>
    /\ \E c \in Certs :
          /\ sync = SyncState("BlocksPending", c, TRUE, NewChain(c, <<>>))
          /\ verified = c.best_tip
          /\ peers = [p \in Peers |->
                        IF p \in Connecting
                        THEN [ready |-> TRUE, best_tip |-> c.best_tip]
                        ELSE [ready |-> FALSE, best_tip |-> None]]
    /\ blacklist = {}
    /\ won_slot = {}
    /\ rpc = [p \in Peers |-> [inflight |-> 0, next_id |-> 1]]
    /\ snark = [p \in Peers |-> [j \in Jobs |-> NoCandidate]]
    /\ last = EnvNote
    /\ OtherIdle

LiveNext ==
    \/ \E h \in Hashes, p \in Peers : BlocksPeerQueryInit(h, p)
    \/ \E h \in Hashes, p \in Peers : BlocksPeerQueryPending(h, p)
    \/ \E p \in Peers, id \in RpcIds, h \in Hashes : BlocksPeerQuerySuccess(p, id, h)
    \/ \E h \in Hashes : BlocksFetchSuccess(h)
    \/ \E h \in Hashes : BlocksNextApplyPending(h)
    \/ \E h \in Hashes : BlocksNextApplyError(h)
    \/ \E h \in Hashes : BlocksNextApplySuccess(h)
    \/ BlocksSuccess
    \/ CommitPending
    \/ CommitSuccess
    \/ \E p \in Connecting : RpcResponseReceived(p)

\* Whatever is enabled is eventually dispatched: the effects dispatch the next
\* action of the sync, and the services answer.
SpecLive == LiveInit /\ [][LiveNext]_vars /\ WF_vars(LiveNext)

----------------------------------------------------------------------------
(* Properties of the sync state machine *)

CommitPhases == {"BlocksSuccess", "CommitPending", "CommitSuccess"}

AllApplied(chain) == \A i \in DOMAIN chain : is_apply_success(chain[i])

\* the step is the action of that kind (every action records itself in last)
Taken(kind) == last'.kind = kind /\ last'.from = sync.phase

\* C1: BlocksSuccess is entered only from a BlocksPending state whose blocks
\* are all applied, CommitPending only from BlocksSuccess and CommitSuccess
\* only from CommitPending; in the three phases every block of the target
\* chain is applied.
C1_CommitOnlyAfterAllApplied ==
    [][ /\ (sync'.phase = "BlocksSuccess" /\ sync.phase # "BlocksSuccess")
            => (sync.phase = "BlocksPending" /\ AllApplied(sync.chain))
        /\ (sync'.phase = "CommitPending" /\ sync.phase # "CommitPending")
            => sync.phase = "BlocksSuccess"
        /\ (sync'.phase = "CommitSuccess" /\ sync.phase # "CommitSuccess")
            => sync.phase = "CommitPending"
        /\ sync'.phase \in CommitPhases
            => (AllApplied(sync'.chain) /\ Len(sync'.chain) >= 2) ]_vars

\* C1 acted: a chain with a block that had to be fetched and applied is committed
C1_Witness ==
    /\ sync.phase = "CommitSuccess"
    /\ Len(sync.chain) = 3
    /\ sync.chain[2].hash \notin Range(frontier)

\* index of the block with hash h in a chain, 0 when absent
IndexOf(chain, h) ==
    IF \E i \in DOMAIN chain : chain[i].hash = h
    THEN CHOOSE i \in DOMAIN chain : chain[i].hash = h
    ELSE 0

\* C2: BlocksNextApplyPending{hash} is accepted only for the block selected as
\* next to apply, an apply result only for the block being applied, at most one
\* block is being applied, and the applied blocks of the chain are a prefix of it.
C2_ApplyInChainOrder ==
    [][ /\ Taken("BlocksNextApplyPending")
            => /\ blocks_apply_next(sync) = last'.hash
               /\ \A i \in DOMAIN sync.chain : ~is_apply_pending(sync.chain[i])
        /\ (Taken("BlocksNextApplySuccess") \/ Taken("BlocksNextApplyError"))
            => /\ blocks_apply_pending(sync) = last'.hash
               /\ is_apply_pending(sync.chain[IndexOf(sync.chain, last'.hash)])
        /\ Cardinality({ i \in DOMAIN sync'.chain : is_apply_pending(sync'.chain[i]) }) <= 1
        /\ \A i \in DOMAIN sync'.chain :
              (is_apply_success(sync'.chain[i]) \/ is_apply_pending(sync'.chain[i]))
                 => \A j \in 1..(i-1) : is_apply_success(sync'.chain[j]) ]_vars

\* C2 acted: the second block of a chain was applied after the first, while the
\* best tip was at hand from the start
C2_Witness ==
    /\ last.kind = "BlocksNextApplySuccess"
    /\ Len(sync.chain) = 3
    /\ last.hash = sync.chain[3].hash
    /\ sync.chain[2].hash \notin Range(frontier)

\* C4: BestTipUpdate is never accepted in CommitPending or CommitSuccess, and
\* the target of a commit that has started is the one committed.
C4_NoBestTipUpdateInCommit ==
    [][ sync.phase \in {"CommitPending", "CommitSuccess"}
          => /\ ~Taken("BestTipUpdate")
             /\ (SyncCert(sync') = SyncCert(sync) \/ sync'.phase = "Synced") ]_vars

\* the conditions of BestTipUpdate other than the one on the phase
BestTipUpdate_but_phase(c) ==
    /\ BestTipUpdate_new_tip(c)
    /\ BestTipUpdate_consensus_ok(c)
    /\ BestTipUpdate_blacklist_ok(c)
    /\ BestTipUpdate_producer_ok(c)

\* C4 acted: a commit is running and a candidate passes every other condition
C4_Witness ==
    /\ sync.phase \in {"CommitPending", "CommitSuccess"}
    /\ \E c \in Certs : BestTipUpdate_but_phase(c) /\ ~ENABLED BestTipUpdate(c)

\* C5 as stated: BestTipUpdate is accepted only if consensus_take(target tip,
\* candidate) is true.
C5_Stated_TakenOnlyIfConsensusTake ==
    last.kind = "BestTipUpdate" => consensus_take(last.tip, sync.best_tip)

\* C5: BestTipUpdate is accepted only if consensus_take(target tip, candidate)
\* is true or the target tip is a genesis block below the candidate; the target
\* tip is the sync target's best tip or, when there is none, the frontier's.
C5_TakenOnlyIfConsensusTakeOrGenesis ==
    last.kind = "BestTipUpdate"
        => /\ last.tip # None
           /\ \/ consensus_take(last.tip, sync.best_tip)
              \/ is_genesis(last.tip) /\ Height(sync.best_tip) > Height(last.tip)

\* C5 acted: a candidate that loses the consensus comparison with a genesis
\* target tip became the sync target
C5_Witness ==
    /\ last.kind = "BestTipUpdate"
    /\ is_genesis(last.tip)
    /\ ~consensus_take(last.tip, sync.best_tip)

\* the hashes of the sync target's certificate
CertHashes(s) == {s.best_tip, s.root_block} \cup Range(s.blocks_inbetween)

\* C6 as stated: BestTipUpdate is accepted for no certificate with a blacklisted
\* hash, so a sync target never has a blacklisted hash on its certificate.
C6_Stated_TargetNeverBlacklisted ==
    /\ last.kind = "BestTipUpdate" => CertHashes(sync) \cap blacklist = {}
    /\ is_pending(sync) => CertHashes(sync) \cap blacklist = {}

\* C6: BestTipUpdate is accepted for no certificate whose best tip, root block
\* or blocks_inbetween has a blacklisted hash: the target it installs has none.
C6_TakenOnlyIfNotBlacklisted ==
    last.kind = "BestTipUpdate" => CertHashes(sync) \cap blacklist = {}

\* C6 acted: a block of the target failed to apply and the fork from it is
\* blacklisted; a candidate passing every other condition, with a clean best
\* tip and root but a blacklisted block in between, is rejected
C6_Witness ==
    \E c \in Certs :
        /\ BestTipUpdate_phase_ok
        /\ BestTipUpdate_new_tip(c)
        /\ BestTipUpdate_consensus_ok(c)
        /\ BestTipUpdate_producer_ok(c)
        /\ c.best_tip \notin blacklist /\ c.root_block \notin blacklist
        /\ Range(c.blocks_inbetween) \cap blacklist # {}
        /\ ~ENABLED BestTipUpdate(c)

\* the conditions of BestTipUpdate other than the block producer's
BestTipUpdate_but_producer(c) ==
    /\ BestTipUpdate_phase_ok
    /\ BestTipUpdate_new_tip(c)
    /\ BestTipUpdate_consensus_ok(c)
    /\ BestTipUpdate_blacklist_ok(c)

\* the node is producing a block and the candidate is not its own
ProducingAgainst(c) == won_slot # {} /\ ~is_me(Producer(c.best_tip))

\* C7 as stated: all other conditions holding, BestTipUpdate is rejected exactly
\* when the node is producing, the candidate is not its own and the won slot
\* is strictly better than the candidate.
C7_Stated_RejectedIffWonSlotBetter ==
    \A c \in Certs :
        BestTipUpdate_but_producer(c)
            => ((~ENABLED BestTipUpdate(c))
                   <=> (ProducingAgainst(c)
                        /\ \E w \in won_slot : won_slot_cmp(w, c.best_tip) > 0))

\* C7: all other conditions holding, BestTipUpdate is rejected exactly when the
\* node is producing, the candidate is not its own and the won slot is not
\* strictly less than the candidate; the guard never blocks the update of a
\* node that is not producing, or a candidate that is the node's own block.
C7_RejectedIffWonSlotNotLess ==
    \A c \in Certs :
        BestTipUpdate_but_producer(c)
            => ((~ENABLED BestTipUpdate(c))
                   <=> (ProducingAgainst(c)
                        /\ \E w \in won_slot : won_slot_cmp(w, c.best_tip) >= 0))

\* C7 acted: the node is producing, and a candidate of another producer that
\* passes every other condition ties with the won slot and is rejected
C7_Witness ==
    \E c \in Certs :
        /\ BestTipUpdate_but_producer(c)
        /\ ProducingAgainst(c)
        /\ \E w \in won_slot : won_slot_cmp(w, c.best_tip) = 0
        /\ ~ENABLED BestTipUpdate(c)

\* C8 as stated: the next-epoch and the root ledger phases start only after the
\* staking ledger phase has succeeded, the root ledger phase not while a
\* next-epoch target exists that has not succeeded, and BlocksPending is entered
\* only from RootLedgerSuccess.
C8_Stated_LedgerPhasesInOrder ==
    [][ /\ Taken("LedgerNextEpochPending") => sync.phase = "StakingLedgerSuccess"
        /\ Taken("LedgerRootPending")
            => \/ sync.phase = "NextEpochLedgerSuccess"
               \/ /\ sync.phase = "StakingLedgerSuccess"
                  /\ ~has_next_epoch(sync.best_tip, sync.root_block)
        /\ Taken("BlocksPending") => sync.phase = "RootLedgerSuccess" ]_vars

\* C8: the ledger phases are taken in the order staking, next-epoch, root.
\* LedgerStakingPending is accepted only in Init; LedgerNextEpochPending only in
\* Init or StakingLedgerSuccess, when a next-epoch target exists;
\* LedgerRootPending only in NextEpochLedgerSuccess, or in Init or
\* StakingLedgerSuccess when no next-epoch target exists; each Success only in
\* its Pending phase once the ledger is synced; BlocksPending only in
\* RootLedgerSuccess.
C8_LedgerPhasesEnabledInOrder ==
    [][ /\ Taken("LedgerStakingPending") => sync.phase = "Init"
        /\ Taken("LedgerStakingSuccess")
            => sync.phase = "StakingLedgerPending" /\ sync.ledger_ok
        /\ Taken("LedgerNextEpochPending")
            => /\ sync.phase \in {"Init", "StakingLedgerSuccess"}
               /\ has_next_epoch(sync.best_tip, sync.root_block)
        /\ Taken("LedgerNextEpochSuccess")
            => sync.phase = "NextEpochLedgerPending" /\ sync.ledger_ok
        /\ Taken("LedgerRootPending")
            => \/ sync.phase = "NextEpochLedgerSuccess"
               \/ /\ sync.phase \in {"Init", "StakingLedgerSuccess"}
                  /\ ~has_next_epoch(sync.best_tip, sync.root_block)
        /\ Taken("LedgerRootSuccess")
            => sync.phase = "RootLedgerPending" /\ sync.ledger_ok
        /\ Taken("BlocksPending") => sync.phase = "RootLedgerSuccess" ]_vars

\* C8 acted: the root ledger phase was started from Init, the staking ledger
\* phase skipped
C8_Witness ==
    /\ last.kind = "LedgerRootPending"
    /\ last.from = "Init"
    /\ sync.phase = "RootLedgerPending"

----------------------------------------------------------------------------
(* Properties of the requests sent to peers *)

RequestKinds == {"BlocksPeerQueryInit", "BlocksPeerQueryRetry", "WorkFetchInit"}

\* C9: a block fetch, a block fetch retry or a snark work fetch is accepted only
\* for a peer that is ready and whose rpc channel can send a request, and the
\* requests in flight to a peer never exceed the peer's limit.
C9_RequestsOnlyToReadyPeersBelowLimit ==
    [][ /\ (\E k \in RequestKinds : Taken(k))
            => /\ last'.peer \in Peers
               /\ is_ready_peer(last'.peer)
               /\ can_send_request(last'.peer)
               /\ rpc'[last'.peer].inflight = rpc[last'.peer].inflight + 1
        /\ \A p \in Peers : rpc'[p].inflight <= RpcLimit ]_vars

\* C9 acted: a request was sent to a peer, which is at its limit, while a block
\* or a snark waits to be fetched from it
C9_Witness ==
    /\ last.kind \in RequestKinds
    /\ rpc[last.peer].inflight = RpcLimit
    /\ is_ready_peer(last.peer)
    /\ \/ /\ blocks_fetch_next(sync) # None
          /\ peers[last.peer].best_tip = sync_best_tip(sync)
       \/ \E j \in Jobs : snark[last.peer][j].st = "InfoReceived"

\* C10: BlocksPeerQueryInit{hash, peer_id} is accepted only if hash is the next
\* block the sync needs to fetch and the peer advertises a best tip that is the
\* best tip of the sync target.
C10_FetchNextFromPeerOnTarget ==
    [][ Taken("BlocksPeerQueryInit")
          => /\ blocks_fetch_next(sync) # None
             /\ last'.hash = blocks_fetch_next(sync)
             /\ \A i \in 1..(IndexOf(sync.chain, last'.hash) - 1) :
                    ~needs_fetch(sync.chain[i])
             /\ is_ready_peer(last'.peer)
             /\ peers[last'.peer].best_tip # None
             /\ peers[last'.peer].best_tip = sync.best_tip ]_vars

\* C10 acted: the first of two missing blocks was requested from a peer
\* advertising the target's best tip
C10_Witness ==
    /\ last.kind = "BlocksPeerQueryInit"
    /\ peers[last.peer].best_tip = sync.best_tip
    /\ \E i \in DOMAIN sync.chain :
          /\ sync.chain[i].hash # last.hash
          /\ needs_fetch(sync.chain[i])
          /\ IndexOf(sync.chain, last.hash) < i

\* the case of C10 that is refused: blocks are missing and the only ready peer
\* that can send advertises another best tip
C10_RefusedCase ==
    /\ blocks_fetch_next(sync) # None
    /\ \E p \in Peers :
          /\ is_ready_peer(p) /\ can_send_request(p)
          /\ peers[p].best_tip # sync.best_tip
          /\ ~ENABLED BlocksPeerQueryInit(blocks_fetch_next(sync), p)

----------------------------------------------------------------------------
(* Termination of the sync *)

SomeApplyError == \E i \in DOMAIN sync.chain : sync.chain[i].st = "ApplyError"

C3_StuckOnApplyError ==
    /\ SomeApplyError
    /\ ~ENABLED LiveNext

----------------------------------------------------------------------------
(* Properties of the responses to block fetches *)

\* the step changes, of the sync state, the attempt with peer p of the block
\* at index i of the chain to a, and nothing else
OnlyAttemptChanged(i, p, a) ==
    sync' = [sync EXCEPT !.chain[i].attempts[p] = a]

\* C11: a response to a block fetch (BlocksPeerQuerySuccess, BlocksPeerQueryError)
\* is accepted only if a block of the current chain is FetchPending from the
\* responding peer with the response's rpc_id and, for a success, that block's
\* hash is the response's; it changes that attempt and nothing else of the
\* sync state.
C11_ResponseOnlyForPendingFetch ==
    [][ (Taken("BlocksPeerQuerySuccess") \/ Taken("BlocksPeerQueryError"))
            => \E i \in DOMAIN blocks_iter(sync), id \in RpcIds :
                  /\ sync.chain[i].hash = last'.hash
                  /\ is_fetch_pending_from_peer(sync.chain[i], last'.peer, id)
                  /\ OnlyAttemptChanged(i, last'.peer,
                        Attempt(IF Taken("BlocksPeerQuerySuccess")
                                THEN "Success" ELSE "Error", id)) ]_vars

\* C11 acted: a block was asked from a peer, a best tip update then replaced
\* the chain by one without a pending fetch, and the request is still in
\* flight: its response is accepted neither as a success nor as an error
C11_Witness ==
    /\ last.kind = "BestTipUpdate"
    /\ sync.phase = "BlocksPending"
    /\ \E p \in Peers :
          /\ rpc[p].inflight = 1 /\ rpc[p].next_id = 2
          /\ \A h \in Hashes : ~ENABLED BlocksPeerQuerySuccess(p, 1, h)
          /\ ~ENABLED BlocksPeerQueryError(p, 1)
    /\ \E i \in DOMAIN sync.chain : sync.chain[i].st = "FetchPending"

\* C11 acted: a response was accepted for a pending fetch
C11_Accepted ==
    /\ last.kind = "BlocksPeerQuerySuccess"
    /\ \E i \in DOMAIN sync.chain :
          /\ sync.chain[i].hash = last.hash
          /\ sync.chain[i].attempts[last.peer].st = "Success"


----------------------------------------------------------------------------
(* The top-level reducer *)

\* the most actions applied in a run
MaxApplied == 3

\* the versions a sub-state goes through
SubValues == 0..1

EffectfulKinds ==
    {"P2pEffectful", "LedgerEffects", "SnarkPoolEffect", "TransactionPoolEffect",
     "BlockProducerEffectful", "ExternalSnarkWorkerEffects", "RpcEffectful"}

\* the actions a sub-state's reducer takes, by the sub-state
ReducedKinds ==
    [ledger |-> "Ledger", snark |-> "Snark",
     transition_frontier |-> "TransitionFrontier", snark_pool |-> "SnarkPool",
     transaction_pool |-> "TransactionPool", block_producer |-> "BlockProducer",
     external_snark_worker |-> "ExternalSnarkWorker", rpc |-> "Rpc",
     watched_accounts |-> "WatchedAccounts"]

ActionKinds ==
    {"CheckTimeouts", "EventSource", "P2pInitialize", "P2p", "P2pCallbacks"}
        \cup { ReducedKinds[f] : f \in SubStates } \cup EffectfulKinds

\* state.p2p.initialize(chain_id): P2p::Pending becomes P2p::Ready, and it is
\* an error on a P2p::Ready
p2p_initialize(p2p) == IF p2p.ready THEN p2p ELSE [p2p EXCEPT !.ready = TRUE]

\* the match of the mutant: P2pEffectful falls into the arm of P2p
Mut_match_action(st, a, new) ==
    CASE a \in {"P2p", "P2pEffectful"} ->
            IF st.p2p.ready THEN [st EXCEPT !.p2p.v = new] ELSE st
      [] a = "P2pInitialize" -> [st EXCEPT !.p2p = p2p_initialize(@)]
      [] a \in { ReducedKinds[f] : f \in SubStates } ->
            [st EXCEPT !.sub[CHOOSE f \in SubStates : ReducedKinds[f] = a] = new]
      [] OTHER -> st

\* the match of the reducer on the action: the arm of a pure action hands
\* the State to the sub-state's reducer, whose result is new; the arm of an
\* effectful action is empty
match_action(st, a, new) ==
    CASE a = "CheckTimeouts" -> st
      [] a = "EventSource" -> st
      [] a = "P2pInitialize" -> [st EXCEPT !.p2p = p2p_initialize(@)]
      [] a = "P2p" -> IF st.p2p.ready THEN [st EXCEPT !.p2p.v = new] ELSE st
      [] a = "P2pCallbacks" -> st
      [] a \in { ReducedKinds[f] : f \in SubStates } ->
            [st EXCEPT !.sub[CHOOSE f \in SubStates : ReducedKinds[f] = a] = new]
      [] a \in EffectfulKinds -> st

\* what the reducer itself pushes to the dispatcher
pushed_actions(st, a) ==
    CASE a = "CheckTimeouts" ->
            (IF st.p2p.ready THEN <<"P2pTimeouts">> ELSE <<>>)
                \o <<"TransitionFrontierSyncTargetUpdate">>
      [] a = "P2pInitialize" -> <<"P2pEffectfulInitialize">>
      [] a = "P2pCallbacks" -> <<"P2pCallbacks">>
      [] OTHER -> <<>>

\* state.action_applied(action): the State records the action applied last
\* and counts the actions applied
action_applied(st, a) ==
    [st EXCEPT !.last_action = a, !.applied_actions_count = @ + 1]

reducer(st, a, new) == action_applied(match_action(st, a, new), a)

Dispatch(a, new) ==
    /\ node.state.applied_actions_count < MaxApplied
    /\ node' = [state  |-> reducer(node.state, a, new),
                pushed |-> pushed_actions(node.state, a),
                action |-> a]
    /\ UNCHANGED <<syncVars, conn, inbound, outbound, events, testing, ledger, pool, core, work_verify, webrtc>>

ReducerInit ==
    /\ sync = SyncIdle
    /\ frontier = <<>>
    /\ blacklist = {}
    /\ verified = None
    /\ won_slot = {}
    /\ peers = [p \in Peers |-> [ready |-> FALSE, best_tip |-> None]]
    /\ rpc = [p \in Peers |-> [inflight |-> 0, next_id |-> 1]]
    /\ snark = [p \in Peers |-> [j \in Jobs |-> NoCandidate]]
    /\ last = EnvNote
    /\ OtherIdle

ReducerNext == \E a \in ActionKinds, new \in SubValues : Dispatch(a, new)

SpecReducer == ReducerInit /\ [][ReducerNext]_vars

----------------------------------------------------------------------------
(* A WebRTC connection of the p2p service: the service calls of the state   *)
(* machine, the task spawned for Cmd::PeerAdd, the peer task (peer_start,   *)
(* then peer_loop), the tasks and handlers of a channel, and the transport. *)
(* One peer and one channel.                                                *)

\* the most commands the state machine sends to the peer
MaxCmds == 4

\* the most inbound messages on the channel
MaxIn == 1

ChannelEvents ==
    {"ChOpenedOk", "ChOpenedErr", "ChSentOk", "ChSentErr", "ChReceived", "ChClosed"}

connFrame == UNCHANGED <<syncVars, node, inbound, outbound, events, testing, ledger, pool, core, work_verify, webrtc>>

Emit(c, e) == [c EXCEPT !.events = Append(@, e)]

Emitted(e) == \E i \in DOMAIN conn.events : conn.events[i] = e

\* the peer's Aborter was dropped
aborted(c) == c.added /\ ~c.in_map

\* the peer task returns: its RTCConnection and its command receiver drop
Return(c) ==
    [c EXCEPT !.task = "Ended", !.cmds = <<>>, !.internal = <<>>,
              !.pc = IF @ = "Live" THEN "Closing" ELSE @]

\* outgoing_init, incoming_init: the entry, and Cmd::PeerAdd, whose task is
\* spawned with the peer task in it
peer_add(kind) ==
    /\ ~conn.added
    /\ conn' = [conn EXCEPT !.in_map = TRUE, !.added = TRUE, !.kind = kind,
                            !.task = "Create", !.wrapper = "Run"]
    /\ connFrame

\* a service call that sends a command to the peer, if it has an entry
SendCmd(cmd) ==
    /\ conn.in_map /\ conn.ncmds < MaxCmds
    /\ conn' = [conn EXCEPT !.ncmds = @ + 1,
                   !.cmds = IF conn.task \in {"Ended", "Aborted"}
                            THEN @ ELSE Append(@, cmd)]
    /\ connFrame

http_signaling_request ==
    /\ conn.kind = "Outgoing" /\ Emitted("OfferSdpReadyOk")
    /\ SendCmd("PeerHttpOfferSend")

set_answer ==
    /\ conn.kind = "Outgoing" /\ Emitted("OfferSdpReadyOk")
    /\ SendCmd("AnswerSet")

auth_send(auth) ==
    /\ Emitted("OfferSdpReadyOk") \/ Emitted("AnswerSdpReadyOk")
    /\ SendCmd(IF auth THEN "AuthSome" ELSE "AuthNone")

channel_open == SendCmd("ChannelOpen")

channel_send == SendCmd("ChannelSend")

\* disconnect: the entry is removed, its command sender and Aborter drop
disconnect ==
    /\ conn.in_map
    /\ conn' = [conn EXCEPT !.in_map = FALSE]
    /\ connFrame

\* the peer task is at a stage, inside the task of PeerAdd
Running(stage) == conn.wrapper = "Run" /\ conn.task = stage

\* the peer task is at a stage that ends with the transport, the network or
\* a timer.  Once the Aborter dropped, the select of the task of PeerAdd is
\* polled before any of them is done, and the peer task is dropped there.
Awaiting(stage) == Running(stage) /\ ~aborted(conn)

\* peer_start, to the offer: the connection, the main channel, the offer
peer_start_create(ok) ==
    /\ Awaiting("Create")
    /\ conn' =
         IF ~ok THEN Return(Emit(conn, "OfferSdpReadyErr"))
         ELSE IF conn.kind = "Outgoing"
         THEN Emit([conn EXCEPT !.pc = "Live", !.task = "AnswerWait"],
                   "OfferSdpReadyOk")
         ELSE [conn EXCEPT !.pc = "Live", !.task = "AnswerCreate"]
    /\ connFrame

\* the command channel yields its next command, or None once it is empty
\* and its sender dropped
NextCmd(c) ==
    IF c.cmds # <<>> THEN Head(c.cmds) ELSE "None"

CanRecv(c) == c.cmds # <<>> \/ ~c.in_map

Recv(c) == [c EXCEPT !.cmds = IF @ = <<>> THEN @ ELSE Tail(@)]

\* entering the wait for the connection: the state is Connected already, or
\* the connection state handler is set
ConnectedWait(c) ==
    [c EXCEPT !.task = "ConnectedWait",
              !.connected_tx = IF c.state = "Connected" THEN "ok" ELSE "armed"]

\* outgoing: the answer is waited for
peer_start_answer_wait(ok) ==
    /\ Awaiting("AnswerWait") /\ CanRecv(conn)
    /\ conn' =
         LET c == Recv(conn) IN
         CASE NextCmd(conn) = "PeerHttpOfferSend" ->
                 IF ok THEN Emit([c EXCEPT !.task = "AnswerSetWait"], "AnswerReceived")
                 ELSE Return(c)
           [] NextCmd(conn) = "AnswerSet" ->
                 IF ok THEN [c EXCEPT !.task = "RemoteDescSet"] ELSE Return(c)
           [] OTHER -> Return(c)
    /\ connFrame

peer_start_answer_set_wait(ok) ==
    /\ Running("AnswerSetWait") /\ CanRecv(conn)
    /\ conn' =
         LET c == Recv(conn) IN
         IF NextCmd(conn) = "AnswerSet" /\ ok
         THEN [c EXCEPT !.task = "RemoteDescSet"] ELSE Return(c)
    /\ connFrame

\* outgoing: pc.remote_desc_set(answer); its error is reported and the task
\* goes on
peer_start_remote_desc_set(ok) ==
    /\ Awaiting("RemoteDescSet")
    /\ conn' = IF ok THEN ConnectedWait(conn)
               ELSE ConnectedWait(Emit(conn, "FinalizedErr"))
    /\ connFrame

\* incoming: the answer is created and set
peer_start_answer_create(res) ==
    /\ Awaiting("AnswerCreate")
    /\ conn' =
         CASE res = "ok" -> ConnectedWait(Emit(conn, "AnswerSdpReadyOk"))
           [] res = "desc_err" -> Return(Emit(conn, "AnswerSdpReadyErr"))
           [] OTHER -> Return(conn)
    /\ connFrame

\* the closed task emits Closed for the first message of the closed channel
ClosedSend(c) ==
    IF c.closed_sent THEN c ELSE Emit([c EXCEPT !.closed_sent = TRUE], "Closed")

\* pc.on_connection_state_change's handler
on_connection_state_change(c, state) ==
    CASE c.connected_tx = "armed" /\ state = "Connected" ->
            [c EXCEPT !.connected_tx = "ok"]
      [] c.connected_tx = "armed" /\ state \in {"Disconnected", "Closed"} ->
            [c EXCEPT !.connected_tx = "err"]
      [] c.connected_tx \in {"ok", "err", "taken"}
            /\ state \in {"Disconnected", "Closed"} -> ClosedSend(c)
      [] OTHER -> c

\* the transport connects, or loses the connection
rtc_state(state) ==
    /\ conn.pc = "Live"
    /\ \/ state = "Connected" /\ conn.state = "New" /\ conn.task = "ConnectedWait"
       \/ state = "Disconnected" /\ conn.state \in {"New", "Connected"}
    /\ conn' = on_connection_state_change([conn EXCEPT !.state = state], state)
    /\ connFrame

\* the wait for the connection is over; the main channel's handler is set
peer_start_connected ==
    /\ Running("ConnectedWait") /\ conn.connected_tx \in {"ok", "err"}
    /\ conn' =
         IF conn.connected_tx = "ok"
         THEN [conn EXCEPT !.task = "AuthCmdWait", !.connected_tx = "taken",
                           !.remote_auth = "pending"]
         ELSE Return(Emit([conn EXCEPT !.connected_tx = "taken"], "FinalizedErr"))
    /\ connFrame

\* main_channel.on_message's handler takes the first message: it is the
\* remote authentication, or the oneshot's sender drops.  A message that
\* arrives before the handler is set is lost.
main_on_message(valid) ==
    /\ conn.pc = "Live" /\ conn.state = "Connected"
    /\ conn.remote_auth = "pending"
    /\ conn' = [conn EXCEPT !.remote_auth = IF valid THEN "ok" ELSE "dropped"]
    /\ connFrame

\* the mutant sends an authentication whatever the command holds
Mut_after_auth_cmd(cmd) ==
    IF cmd \in {"AuthSome", "AuthNone"} THEN "AuthSend" ELSE "Ended"

\* the task after the command it waits for before the exchange
after_auth_cmd(cmd) == IF cmd = "AuthSome" THEN "AuthSend" ELSE "Ended"

peer_start_auth_cmd ==
    /\ Running("AuthCmdWait") /\ CanRecv(conn)
    /\ conn' =
         LET c == [Recv(conn) EXCEPT !.auth_cmd = NextCmd(conn)] IN
         IF after_auth_cmd(NextCmd(conn)) = "Ended" THEN Return(c)
         ELSE [c EXCEPT !.task = after_auth_cmd(NextCmd(conn))]
    /\ connFrame

\* the local authentication is sent on the main channel; the result of the
\* send is dropped
peer_start_auth_send(ok) ==
    /\ Awaiting("AuthSend")
    /\ conn' = [conn EXCEPT !.task = "RemoteAuthWait",
                            !.local_auth = IF ok THEN "sent" ELSE "send_err"]
    /\ connFrame

\* the result of the exchange, by the oneshot of the remote authentication
finalized(remote_auth) == IF remote_auth = "ok" THEN "FinalizedOk" ELSE "FinalizedErr"

\* the mutant does not return on an error
Mut_after_finalized(res) == "MainClose"

\* the task after the Finalized event
after_finalized(res) == IF res = "FinalizedErr" THEN "Ended" ELSE "MainClose"

peer_start_finalized ==
    /\ Running("RemoteAuthWait") /\ conn.remote_auth \in {"ok", "dropped"}
    /\ conn' =
         LET c == Emit(conn, finalized(conn.remote_auth)) IN
         IF after_finalized(finalized(conn.remote_auth)) = "Ended" THEN Return(c)
         ELSE [c EXCEPT !.task = after_finalized(finalized(conn.remote_auth))]
    /\ connFrame

\* the main channel is closed, and the peer loop starts
peer_start_main_close ==
    /\ Awaiting("MainClose")
    /\ conn' = [conn EXCEPT !.task = "Loop"]
    /\ connFrame

\* peer_loop: the loop goes on while the connection is Connected
peer_loop_check ==
    /\ Running("Loop")
    /\ conn' = IF conn.state = "Connected"
               THEN [conn EXCEPT !.task = "LoopSelect"] ELSE Return(conn)
    /\ connFrame

\* peer_loop: a command of the state machine
peer_loop_cmd ==
    /\ Running("LoopSelect") /\ CanRecv(conn)
    /\ conn' =
         LET c == [Recv(conn) EXCEPT !.task = "Loop"] IN
         CASE NextCmd(conn) = "None" -> Return(c)
           [] NextCmd(conn) = "ChannelOpen" -> [c EXCEPT !.open_task = TRUE]
           [] NextCmd(conn) = "ChannelSend" ->
                 IF ~c.listed THEN Emit(c, "ChSentErr")
                 ELSE IF ~c.sender THEN Emit(c, "ChSentErr")
                 ELSE [c EXCEPT !.sendq = @ + 1]
           [] OTHER -> c
    /\ connFrame

\* peer_loop: a command of a task or handler of a channel
peer_loop_internal ==
    /\ Running("LoopSelect") /\ conn.internal # <<>>
    /\ conn' =
         LET c == [conn EXCEPT !.task = "Loop", !.internal = Tail(@)] IN
         CASE Head(conn.internal) = "ChannelOpenedOk" ->
                 Emit([c EXCEPT !.listed = TRUE, !.handler = TRUE, !.sender = TRUE],
                      "ChOpenedOk")
           [] Head(conn.internal) = "ChannelOpenedErr" -> Emit(c, "ChOpenedErr")
           [] Head(conn.internal) = "ChannelClosed" ->
                 Emit([c EXCEPT !.listed = FALSE], "ChClosed")
    /\ connFrame

\* a send to the peer loop, which fails once the loop is over
InternalSend(c, cmd) ==
    IF c.task \in {"Loop", "LoopSelect"}
    THEN [c EXCEPT !.internal = Append(@, cmd)] ELSE c

\* the channel-open task: the channel opens, or fails to
channel_open_task(ok) ==
    /\ conn.open_task /\ conn.pc = "Live"
    /\ conn' = InternalSend([conn EXCEPT !.open_task = FALSE],
                            IF ok THEN "ChannelOpenedOk" ELSE "ChannelOpenedErr")
    /\ connFrame

\* the channel's on_close or on_error after it opened
channel_on_close ==
    /\ conn.handler
    /\ conn' = InternalSend([conn EXCEPT !.handler = FALSE], "ChannelClosed")
    /\ connFrame

\* the channel's on_message: a message, or an error, is delivered
channel_on_message ==
    /\ conn.handler /\ conn.pc \in {"Live", "Closing"} /\ conn.nin < MaxIn
    /\ conn' = Emit([conn EXCEPT !.nin = @ + 1], "ChReceived")
    /\ connFrame

\* the channel's outbound sender task: the next message is written
sender_task(ok) ==
    /\ conn.sender /\ conn.sendq > 0
    /\ conn' = Emit([conn EXCEPT !.sendq = @ - 1],
                    IF ok THEN "ChSentOk" ELSE "ChSentErr")
    /\ connFrame

\* the outbound sender task ends when its queue is empty and the peer loop,
\* which holds the queue's sender, is over
sender_task_end ==
    /\ conn.sender /\ conn.sendq = 0 /\ conn.task \in {"Ended", "Aborted"}
    /\ conn' = [conn EXCEPT !.sender = FALSE]
    /\ connFrame

\* a task spawned for a channel is polled after the Aborter dropped: it ends
spawned_aborted ==
    /\ aborted(conn) /\ (conn.open_task \/ conn.sender)
    /\ conn' = [conn EXCEPT !.open_task = FALSE, !.sender = FALSE, !.sendq = 0]
    /\ connFrame

\* the mutant waits for the peer task alone
Mut_peer_task_select ==
    /\ conn.wrapper = "Run" /\ conn.task = "Ended"
    /\ conn' = [conn EXCEPT !.wrapper = "Cleanup"]
    /\ connFrame

\* the task of PeerAdd: the peer task is over, or the Aborter dropped and the
\* peer task is dropped where it is
peer_task_select ==
    /\ conn.wrapper = "Run"
    /\ conn.task = "Ended" \/ aborted(conn)
    /\ conn' = [(IF conn.task = "Ended" THEN conn
                 ELSE [Return(conn) EXCEPT !.task = "Aborted"])
                EXCEPT !.wrapper = "Cleanup"]
    /\ connFrame

\* the task of PeerAdd after the cleanup delay: the closed channel is sent
\* to.  The tasks the Aborter woke were polled before the delay is over.
peer_task_closed ==
    /\ conn.wrapper = "Cleanup"
    /\ aborted(conn) => ~conn.open_task /\ ~conn.sender
    /\ conn' = [ClosedSend(conn) EXCEPT !.wrapper = "Done"]
    /\ connFrame

\* the dropped RTCConnection is closed: its handlers are gone
rtc_closed ==
    /\ conn.pc = "Closing"
    /\ conn' = on_connection_state_change(
                  [conn EXCEPT !.pc = "Closed", !.state = "Closed",
                               !.handler = FALSE], "Closed")
    /\ connFrame

ConnInit ==
    /\ sync = SyncIdle
    /\ frontier = <<>>
    /\ blacklist = {}
    /\ verified = None
    /\ won_slot = {}
    /\ peers = [p \in Peers |-> [ready |-> FALSE, best_tip |-> None]]
    /\ rpc = [p \in Peers |-> [inflight |-> 0, next_id |-> 1]]
    /\ snark = [p \in Peers |-> [j \in Jobs |-> NoCandidate]]
    /\ last = EnvNote
    /\ OtherIdle

ConnNext ==
    \/ \E kind \in {"Outgoing", "Incoming"} : peer_add(kind)
    \/ http_signaling_request
    \/ set_answer
    \/ \E auth \in BOOLEAN : auth_send(auth)
    \/ channel_open
    \/ channel_send
    \/ disconnect
    \/ \E ok \in BOOLEAN : peer_start_create(ok)
    \/ \E ok \in BOOLEAN : peer_start_answer_wait(ok)
    \/ \E ok \in BOOLEAN : peer_start_answer_set_wait(ok)
    \/ \E ok \in BOOLEAN : peer_start_remote_desc_set(ok)
    \/ \E res \in {"ok", "desc_err", "create_err"} : peer_start_answer_create(res)
    \/ \E state \in {"Connected", "Disconnected"} : rtc_state(state)
    \/ peer_start_connected
    \/ \E valid \in BOOLEAN : main_on_message(valid)
    \/ peer_start_auth_cmd
    \/ \E ok \in BOOLEAN : peer_start_auth_send(ok)
    \/ peer_start_finalized
    \/ peer_start_main_close
    \/ peer_loop_check
    \/ peer_loop_cmd
    \/ peer_loop_internal
    \/ \E ok \in BOOLEAN : channel_open_task(ok)
    \/ channel_on_close
    \/ channel_on_message
    \/ \E ok \in BOOLEAN : sender_task(ok)
    \/ sender_task_end
    \/ spawned_aborted
    \/ peer_task_select
    \/ peer_task_closed
    \/ rtc_closed

SpecConn == ConnInit /\ [][ConnNext]_vars


\* Whatever task can run is polled: the task of PeerAdd, and the tasks the
\* Aborter wakes.
SpecConnLive ==
    /\ ConnInit /\ [][ConnNext]_vars
    /\ WF_vars(peer_task_select) /\ WF_vars(peer_task_closed)
    /\ WF_vars(spawned_aborted)

----------------------------------------------------------------------------
(* Properties of a WebRTC connection *)

EventAt(e) == { i \in DOMAIN conn.events : conn.events[i] = e }

ChannelEventAt == { i \in DOMAIN conn.events : conn.events[i] \in ChannelEvents }

InLoop == conn.task \in {"Loop", "LoopSelect"}

C14_DroppedCase ==
    /\ conn.remote_auth = "dropped" /\ conn.task = "Ended"
    /\ EventAt("FinalizedErr") # {}

C18_AbortedInExchange ==
    /\ conn.task = "Aborted" /\ conn.closed_sent
    /\ conn.local_auth # "none" /\ EventAt("FinalizedOk") = {}
    /\ EventAt("FinalizedErr") = {}

\* C19: once the peer's entry is removed, no channel event follows the
\* Closed event of the connection.
C19_NoChannelEventAfterClosed ==
    aborted(conn) =>
        \A i \in EventAt("Closed"), j \in ChannelEventAt : j < i


----------------------------------------------------------------------------
(* The inbound framing of a channel: MsgBuffer::encode on the sender's      *)
(* side, the channel's on_message handler and process_msg on the            *)
(* receiver's.                                                              *)

\* the most frames the remote writes
MaxFrames == 2

\* the most Received events of a run
MaxDelivered == 4

\* chan_id.max_msg_size() of the channel
max_msg_size == 2

\* the messages of the channel, and ChannelMsg::encode of each
ChannelMsgs == {"m1", "m2"}

msg_encode(m) ==
    CASE m = "m1" -> <<7>>
      [] m = "m2" -> <<7, 8>>

\* ChannelMsg::decode: the message the bytes encode, or an error
msg_decode(bytes) ==
    IF \E m \in ChannelMsgs : msg_encode(m) = bytes
    THEN CHOOSE m \in ChannelMsgs : msg_encode(m) = bytes
    ELSE "DecodeError"

\* u32::to_be_bytes and u32::from_be_bytes
to_be_bytes(n) ==
    <<(n \div 16777216) % 256, (n \div 65536) % 256, (n \div 256) % 256, n % 256>>

from_be_bytes(b) == ((b[1] * 256 + b[2]) * 256 + b[3]) * 256 + b[4]

\* MsgBuffer::encode: the length of the encoded message, then the message
encode(m) == to_be_bytes(Len(msg_encode(m))) \o msg_encode(m)

\* what a remote writes: the frame of a message, a frame whose length is
\* over the limit (with and without its payload), and a frame whose payload
\* does not decode
BadFrames ==
    {to_be_bytes(max_msg_size + 1), to_be_bytes(max_msg_size + 1) \o <<7, 7, 7>>,
     to_be_bytes(1) \o <<9>>}

Frames == { encode(m) : m \in ChannelMsgs } \cup BadFrames

RECURSIVE Concat(_)
Concat(ss) == IF ss = <<>> THEN <<>> ELSE Head(ss) \o Concat(Tail(ss))

Errors == {"WebRTCMessageTooSmall", "ChannelMsgLenOverLimit", "DecodeError"}

\* process_msg(chan_id, buf, len, msg): the new buf, len and msg, and the
\* result: a message, an error, or None
process_msg(buf, len, msg) ==
    IF buf = <<>> /\ Len(msg) < 4
    THEN [buf |-> buf, len |-> len, msg |-> msg, res |-> "WebRTCMessageTooSmall"]
    ELSE IF buf = <<>> /\ from_be_bytes(msg) > max_msg_size
    THEN [buf |-> buf, len |-> from_be_bytes(msg), msg |-> SubSeq(msg, 5, Len(msg)),
          res |-> "ChannelMsgLenOverLimit"]
    ELSE
      LET len1 == IF buf = <<>> THEN from_be_bytes(msg) ELSE len
          msg1 == IF buf = <<>> THEN SubSeq(msg, 5, Len(msg)) ELSE msg
          bytes_left == len1 - Len(buf)
          buf2 == buf \o SubSeq(msg1, 1, bytes_left)
      IN  IF bytes_left > Len(msg1)
          THEN [buf |-> buf \o msg1, len |-> len1, msg |-> <<>>, res |-> "None"]
          ELSE IF msg_decode(buf2) = "DecodeError"
          THEN [buf |-> buf2, len |-> len1,
                msg |-> SubSeq(msg1, bytes_left + 1, Len(msg1)), res |-> "DecodeError"]
          ELSE [buf |-> <<>>, len |-> len1,
                msg |-> SubSeq(msg1, bytes_left + 1, Len(msg1)),
                res |-> msg_decode(buf2)]

inboundFrame == UNCHANGED <<syncVars, node, conn, outbound, events, testing, ledger, pool, core, work_verify, webrtc>>

\* the transport hands the next n bytes of the stream to the handler
on_message(n) ==
    /\ inbound.data = <<>> /\ n <= Len(inbound.stream)
    /\ inbound' = [inbound EXCEPT !.data = SubSeq(inbound.stream, 1, n),
                                  !.stream = SubSeq(@, n + 1, Len(@))]
    /\ inboundFrame

\* one turn of the handler's loop, while the data is not empty
on_message_loop ==
    /\ inbound.data # <<>> /\ Len(inbound.delivered) < MaxDelivered
    /\ LET r == process_msg(inbound.buf, inbound.len, inbound.data) IN
       inbound' = [inbound EXCEPT
                      !.buf = r.buf, !.len = r.len, !.data = r.msg,
                      !.delivered = IF r.res = "None" THEN @ ELSE Append(@, r.res)]
    /\ inboundFrame

InboundInit ==
    /\ sync = SyncIdle
    /\ frontier = <<>>
    /\ blacklist = {}
    /\ verified = None
    /\ won_slot = {}
    /\ peers = [p \in Peers |-> [ready |-> FALSE, best_tip |-> None]]
    /\ rpc = [p \in Peers |-> [inflight |-> 0, next_id |-> 1]]
    /\ snark = [p \in Peers |-> [j \in Jobs |-> NoCandidate]]
    /\ last = EnvNote
    /\ node = NodeInit /\ conn = ConnIdle /\ outbound = OutboundIdle
    /\ events = EventsIdle
    /\ testing = TestingIdle
    /\ ledger = LedgerIdle
    /\ pool = PoolIdle
    /\ core = CoreIdle /\ work_verify = WorkVerifyIdle
    /\ webrtc = WebrtcIdle
    /\ \E k \in 1..MaxFrames : \E fs \in [1..k -> Frames] :
          inbound = [InboundIdle EXCEPT !.frames = fs, !.stream = Concat(fs)]

InboundNext ==
    \/ \E n \in 1..(MaxFrames * 7) : on_message(n)
    \/ on_message_loop

SpecInbound == InboundInit /\ [][InboundNext]_vars

\* the messages of the frames, when every frame is the frame of a message
RECURSIVE Decoded(_)
Decoded(fs) ==
    IF fs = <<>> THEN <<>>
    ELSE <<msg_decode(SubSeq(Head(fs), 5, Len(Head(fs))))>> \o Decoded(Tail(fs))

Honest == \A i \in DOMAIN inbound.frames : inbound.frames[i] \notin BadFrames

\* C15: once an error is delivered for a frame over the limit or a
\* malformed message, no later message of the channel is delivered.
C15_NoMessageAfterError ==
    \A i, j \in DOMAIN inbound.delivered :
        (i < j /\ inbound.delivered[i] \in Errors)
            => inbound.delivered[j] \notin ChannelMsgs

\* C16: the frames of messages within the limit, however their bytes are
\* split into callbacks, are delivered as these messages, in order, each
\* once, and with no error.
C16_RoundTrip ==
    Honest =>
        /\ \A i \in DOMAIN inbound.delivered :
              /\ i <= Len(inbound.frames)
              /\ inbound.delivered[i] = Decoded(inbound.frames)[i]
        /\ (inbound.stream = <<>> /\ inbound.data = <<>>)
              => Len(inbound.delivered) = Len(inbound.frames)

\* the round trip of two messages handed over whole, one callback each
C16_WholeFramesCase ==
    /\ Honest /\ Len(inbound.frames) = 2
    /\ inbound.stream = <<>> /\ inbound.data = <<>>
    /\ inbound.delivered = Decoded(inbound.frames)


----------------------------------------------------------------------------
(* The outbound sender task of a channel *)

\* the most messages queued on the channel
MaxMsgs == 2

CHUNK_SIZE == 16 * 1024

\* the lengths of the encoded messages: one chunk, a full chunk, a chunk
\* and a byte, three chunks
Sizes == {5, CHUNK_SIZE, CHUNK_SIZE + 1, 2 * CHUNK_SIZE + 5}

outboundFrame == UNCHANGED <<syncVars, node, conn, inbound, events, testing, ledger, pool, core, work_verify, webrtc>>

Min(a, b) == IF a <= b THEN a ELSE b

\* encoded.chunks(CHUNK_SIZE): the length of the chunk at an offset
chunk_len(size, off) == Min(CHUNK_SIZE, size - off)

\* the mutant takes a write of a part of the chunk for a whole one
Mut_write_result(n, len) == "Ok"

\* the result of a write that wrote n bytes of a chunk
write_result(n, len) == IF n = len THEN "Ok" ELSE "NotAllBytesWritten"

Chunk(id, off, len, n) == [kind |-> "chunk", id |-> id, off |-> off, len |-> len, n |-> n]

SentEvent(id, res) == [kind |-> "sent", id |-> id, off |-> 0, len |-> 0, n |-> res]

\* the channel opens: the sender task is spawned
sender_spawn ==
    /\ ~outbound.running /\ outbound.sizes = <<>> /\ outbound.log = <<>>
    /\ outbound' = [outbound EXCEPT !.running = TRUE]
    /\ outboundFrame

\* peer_loop sends an encoded message to the task
msg_sender_send(size) ==
    /\ outbound.running /\ Len(outbound.sizes) < MaxMsgs
    /\ outbound' = [outbound EXCEPT
                      !.sizes = Append(@, size),
                      !.queue = Append(@, [id |-> Len(outbound.sizes) + 1,
                                           size |-> size])]
    /\ outboundFrame

\* sender_rx.recv(): the next message
sender_recv ==
    /\ outbound.running /\ outbound.cur = NoMsg /\ outbound.queue # <<>>
    /\ outbound' = [outbound EXCEPT !.cur = Head(outbound.queue),
                                    !.queue = Tail(@), !.off = 0]
    /\ outboundFrame

\* chan.send(&chunk) of the next chunk: an error, or n bytes written
sender_chunk(err, short) ==
    /\ outbound.running /\ outbound.cur # NoMsg
    /\ outbound.off < outbound.cur.size
    /\ LET len == chunk_len(outbound.cur.size, outbound.off)
           n == IF short THEN len - 1 ELSE len
       IN  outbound' =
             IF err
             THEN [outbound EXCEPT !.cur = NoMsg,
                      !.log = Append(@, SentEvent(outbound.cur.id, "SendError"))]
             ELSE IF write_result(n, len) # "Ok"
             THEN [outbound EXCEPT !.cur = NoMsg,
                      !.log = @ \o <<Chunk(outbound.cur.id, outbound.off, len, n),
                                     SentEvent(outbound.cur.id, write_result(n, len))>>]
             ELSE [outbound EXCEPT !.off = @ + len,
                      !.log = Append(@, Chunk(outbound.cur.id, outbound.off, len, n))]
    /\ outboundFrame

\* no chunk is left: the Sent event of the message
sender_sent ==
    /\ outbound.running /\ outbound.cur # NoMsg
    /\ outbound.off >= outbound.cur.size
    /\ outbound' = [outbound EXCEPT !.cur = NoMsg,
                       !.log = Append(@, SentEvent(outbound.cur.id, "Ok"))]
    /\ outboundFrame

\* the Aborter dropped: the task is dropped where it waits
sender_abort ==
    /\ outbound.running /\ outbound.sizes # <<>>
    /\ outbound' = [outbound EXCEPT !.running = FALSE, !.cur = NoMsg, !.queue = <<>>]
    /\ outboundFrame

OutboundInit ==
    /\ sync = SyncIdle
    /\ frontier = <<>>
    /\ blacklist = {}
    /\ verified = None
    /\ won_slot = {}
    /\ peers = [p \in Peers |-> [ready |-> FALSE, best_tip |-> None]]
    /\ rpc = [p \in Peers |-> [inflight |-> 0, next_id |-> 1]]
    /\ snark = [p \in Peers |-> [j \in Jobs |-> NoCandidate]]
    /\ last = EnvNote
    /\ OtherIdle

OutboundNext ==
    \/ sender_spawn
    \/ \E size \in Sizes : msg_sender_send(size)
    \/ sender_recv
    \/ \E err, short \in BOOLEAN : sender_chunk(err, short)
    \/ sender_sent
    \/ sender_abort

SpecOutbound == OutboundInit /\ [][OutboundNext]_vars

Log == outbound.log

ChunksOf(id) == { i \in DOMAIN Log : Log[i].kind = "chunk" /\ Log[i].id = id }

SentOf(id) == { i \in DOMAIN Log : Log[i].kind = "sent" /\ Log[i].id = id }

\* C17: the messages of a channel are transmitted one at a time in the
\* order they were queued; the chunks of a message are at most CHUNK_SIZE
\* bytes and are written at increasing, adjoining offsets from 0; the
\* chunks of two messages do not interleave; no chunk of a message follows
\* a failed or short write of it; and the one Sent event of a message, with
\* its id and result, precedes whatever is written of the next message.
C17_SequentialChunkedSend ==
    /\ \A i, j \in DOMAIN Log : i < j => Log[i].id <= Log[j].id
    /\ \A i \in DOMAIN Log : Log[i].kind = "chunk" =>
          /\ Log[i].len <= CHUNK_SIZE /\ Log[i].len > 0
          /\ Log[i].off = IF i > 1 /\ Log[i-1].id = Log[i].id
                          THEN Log[i-1].off + Log[i-1].len ELSE 0
          /\ (i > 1 /\ Log[i-1].id = Log[i].id) =>
                Log[i-1].kind = "chunk" /\ Log[i-1].n = Log[i-1].len
    /\ \A id \in DOMAIN outbound.sizes :
          /\ Cardinality(SentOf(id)) <= 1
          /\ \A i \in SentOf(id), j \in DOMAIN Log : (Log[j].id = id) => j <= i
          /\ (\E j \in DOMAIN Log : Log[j].id > id) => SentOf(id) # {}
          /\ \A i \in SentOf(id) :
                Log[i].n = "Ok" <=>
                   /\ ChunksOf(id) # {}
                   /\ Log[i-1].n = Log[i-1].len
                   /\ Log[i-1].off + Log[i-1].len = outbound.sizes[id]

\* a message of three chunks was sent, then a short write ended the next
C17_Witness ==
    /\ \E i \in SentOf(1) : Log[i].n = "Ok" /\ Cardinality(ChunksOf(1)) = 3
    /\ \E i \in SentOf(2) : Log[i].n = "NotAllBytesWritten"
                            /\ Cardinality(ChunksOf(2)) = 2


----------------------------------------------------------------------------
(* The event receiver *)

\* the most events sent into the event channel
MaxEvents == 4

eventsFrame == UNCHANGED <<syncVars, node, conn, inbound, outbound, testing, ledger, pool, core, work_verify, webrtc>>

\* an event is sent into the channel by a service
event_send ==
    /\ events.senders /\ events.nsent < MaxEvents
    /\ events' = [events EXCEPT !.nsent = @ + 1, !.rx = Append(@, events.nsent + 1)]
    /\ eventsFrame

\* the senders of the channel are dropped
senders_drop ==
    /\ events.senders /\ events.nsent > 0
    /\ events' = [events EXCEPT !.senders = FALSE]
    /\ eventsFrame

\* wait_for_events is called: it returns, or is suspended in rx.recv()
wait_for_events ==
    /\ ~events.waiting
    /\ events' =
         IF events.queue # <<>>
         THEN [events EXCEPT !.wait_res = "Ok", !.ok_fresh = TRUE]
         ELSE IF events.rx # <<>>
         THEN [events EXCEPT !.queue = <<Head(events.rx)>>, !.rx = Tail(@),
                             !.wait_res = "Ok", !.ok_fresh = TRUE]
         ELSE IF ~events.senders
         THEN [events EXCEPT !.wait_res = "Err", !.ok_fresh = FALSE]
         ELSE [events EXCEPT !.waiting = TRUE, !.ok_fresh = FALSE]
    /\ eventsFrame

\* rx.recv() is over: an event, or the senders were dropped
wait_for_events_recv ==
    /\ events.waiting /\ (events.rx # <<>> \/ ~events.senders)
    /\ events' =
         IF events.rx # <<>>
         THEN [events EXCEPT !.queue = Append(@, Head(events.rx)), !.rx = Tail(@),
                             !.waiting = FALSE, !.wait_res = "Ok", !.ok_fresh = TRUE]
         ELSE [events EXCEPT !.waiting = FALSE, !.wait_res = "Err"]
    /\ eventsFrame

\* the future of wait_for_events is dropped while suspended
wait_for_events_cancel ==
    /\ events.waiting
    /\ events' = [events EXCEPT !.waiting = FALSE]
    /\ eventsFrame

has_next ==
    /\ ~events.waiting
    /\ events' = [events EXCEPT !.has = (events.queue # <<>> \/ events.rx # <<>>)]
    /\ eventsFrame

\* the mutant receives from the channel before it looks at the queue
Mut_try_next_from(queue, rx) ==
    IF rx # <<>> THEN "rx" ELSE IF queue # <<>> THEN "queue" ELSE "none"

\* where try_next takes the event from
try_next_from(queue, rx) ==
    IF queue # <<>> THEN "queue" ELSE IF rx # <<>> THEN "rx" ELSE "none"

try_next ==
    /\ ~events.waiting
    /\ LET from == try_next_from(events.queue, events.rx)
           e == [events EXCEPT !.ok_fresh = FALSE,
                               !.try_after_ok = events.ok_fresh,
                               !.try_res = IF from = "none" THEN "Empty" ELSE "Some"]
       IN  events' =
             CASE from = "queue" ->
                     [e EXCEPT !.handed = Append(@, events.queue[1]),
                               !.queue = Tail(@)]
               [] from = "rx" ->
                     [e EXCEPT !.handed = Append(@, events.rx[1]), !.rx = Tail(@)]
               [] OTHER -> e
    /\ eventsFrame

EventsInit ==
    /\ sync = SyncIdle
    /\ frontier = <<>>
    /\ blacklist = {}
    /\ verified = None
    /\ won_slot = {}
    /\ peers = [p \in Peers |-> [ready |-> FALSE, best_tip |-> None]]
    /\ rpc = [p \in Peers |-> [inflight |-> 0, next_id |-> 1]]
    /\ snark = [p \in Peers |-> [j \in Jobs |-> NoCandidate]]
    /\ last = EnvNote
    /\ OtherIdle

EventsNext ==
    \/ event_send
    \/ senders_drop
    \/ wait_for_events
    \/ wait_for_events_recv
    \/ wait_for_events_cancel
    \/ has_next
    \/ try_next

SpecEvents == EventsInit /\ [][EventsNext]_vars

\* C20: the events try_next returned are the first events sent, in the order
\* they were sent, each once, and those not yet returned wait in the queue
\* and then in the channel, in that order; and the try_next that follows a
\* wait_for_events that returned Ok returns an event.
C20_EventsInSendOrderOnce ==
    /\ events.handed \o events.queue \o events.rx
          = [i \in 1..events.nsent |-> i]
    /\ events.try_after_ok => events.try_res = "Some"
    /\ events.ok_fresh => events.queue # <<>>

\* an event was moved to the queue by wait_for_events while later events
\* were sent, and all of them were handed over
C20_Witness ==
    /\ events.nsent = MaxEvents /\ Len(events.handed) = MaxEvents
    /\ events.try_after_ok /\ events.wait_res = "Ok"

\* the event in the queue is older than the events in the channel
C20_QueuedBeforeChannel ==
    events.queue # <<>> /\ Len(events.rx) >= 2 /\ events.ok_fresh


----------------------------------------------------------------------------
(* The events of a node under test *)

\* the most events and RPC requests the real service gets
MaxTestingSent == 4

testingFrame == UNCHANGED <<syncVars, node, conn, inbound, outbound, events, ledger, pool, core, work_verify, webrtc>>

\* the kinds of events: NonDet stands for the events that are recorded as
\* ScenarioStep::NonDeterministicEvent, Rpc for the event of an RPC request
TestingEvents == {"Det", "NonDet", "Rpc"}

should_drop_event(event) == event = "NonDet"

set_replay ==
    /\ ~testing.is_replay /\ ~testing.in_next
    /\ testing.pending_events = <<>> /\ testing.returned = "None"
    /\ testing' = [testing EXCEPT !.is_replay = TRUE]
    /\ testingFrame

\* a service of the node sends an event
testing_event_send(event) ==
    /\ testing.nsent < MaxTestingSent
    /\ testing' = [testing EXCEPT !.nsent = @ + 1, !.rx = Append(@, event)]
    /\ testingFrame

\* a client sends an RPC request
testing_rpc_send ==
    /\ testing.nsent < MaxTestingSent
    /\ testing' = [testing EXCEPT !.nsent = @ + 1, !.rpc_rx = @ + 1]
    /\ testingFrame

\* the mutant answers the request without an event
Mut_process_rpc_request(t) == [t EXCEPT !.rpc_rx = @ - 1]

\* process_rpc_request: the request becomes an Rpc event in the event channel
process_rpc_request(t) == [t EXCEPT !.rpc_rx = @ - 1, !.rx = Append(@, "Rpc")]

RECURSIVE process_rpc_requests(_)
process_rpc_requests(t) ==
    IF t.rpc_rx = 0 THEN t ELSE process_rpc_requests(process_rpc_request(t))

\* PendingEventId::copy_inc: the copy it returns and the id it leaves; the
\* sum of wrapping_add is dropped
copy_inc(next_id) == [copy |-> next_id, next_id |-> next_id]

\* pending_events.add(event), with the history of the ids and of what a
\* replay added
pending_add(t, event, path) ==
    LET id == copy_inc(t.next_id)
    IN  [t EXCEPT !.pending_events = Append(@, [id |-> id.copy, event |-> event,
                                                 serial |-> Len(t.issued) + 1]),
                  !.next_id = id.next_id,
                  !.issued = Append(@, id.copy),
                  !.added = IF t.is_replay THEN Append(@, <<event, path>>) ELSE @]

\* PendingEvents::get and the index PendingEvents::remove finds: the first
\* entry with the id, 0 when there is none
pending_find(t, id) ==
    IF \E i \in DOMAIN t.pending_events : t.pending_events[i].id = id
    THEN CHOOSE i \in DOMAIN t.pending_events :
            /\ t.pending_events[i].id = id
            /\ \A k \in 1..(i - 1) : t.pending_events[k].id # id
    ELSE 0

RECURSIVE pending_events_poll(_)
pending_events_poll(t) ==
    IF t.rx = <<>> THEN t
    ELSE LET event == Head(t.rx)
             u == [t EXCEPT !.rx = Tail(@)]
         IN  IF t.is_replay /\ should_drop_event(event)
             THEN pending_events_poll(u)
             ELSE pending_events_poll(pending_add(u, event, "poll"))

pending_events(poll) ==
    /\ ~testing.in_next
    /\ LET t == process_rpc_requests(testing)
       IN  testing' = IF poll THEN pending_events_poll(t) ELSE t
    /\ testingFrame

\* next_pending_event is called
next_pending_event ==
    /\ ~testing.in_next /\ ~testing.panicked
    /\ testing' = [testing EXCEPT !.in_next = TRUE, !.returned = "None"]
    /\ testingFrame

\* its select takes the branch of a received RPC request
next_pending_event_rpc ==
    /\ testing.in_next /\ testing.rpc_rx > 0
    /\ LET t == process_rpc_request(testing)
           event == Head(t.rx)
       IN  testing' =
             IF t.rx = <<>>
             THEN [t EXCEPT !.in_next = FALSE, !.panicked = TRUE]
             ELSE [pending_add([t EXCEPT !.rx = Tail(@)], event, "rpc")
                     EXCEPT !.in_next = FALSE, !.returned = event]
    /\ testingFrame

\* its select takes the branch of wait_for_events
next_pending_event_wait ==
    /\ testing.in_next /\ testing.rx # <<>>
    /\ LET event == Head(testing.rx)
           t == [testing EXCEPT !.rx = Tail(@)]
       IN  testing' =
             IF testing.is_replay /\ should_drop_event(event)
             THEN t
             ELSE [pending_add(t, event, "wait")
                     EXCEPT !.in_next = FALSE, !.returned = event]
    /\ testingFrame

\* take_pending_event(id) with an id that add returned
take_pending_event(n) ==
    /\ ~testing.in_next /\ n \in DOMAIN testing.issued
    /\ LET i == pending_find(testing, testing.issued[n])
       IN  /\ i # 0
           /\ testing' = [testing EXCEPT
                             !.pending_events =
                                 SubSeq(@, 1, i - 1) \o SubSeq(@, i + 1, Len(@)),
                             !.taken = <<[asked |-> n,
                                          got |-> testing.pending_events[i].serial]>>]
    /\ testingFrame

TestingInit ==
    /\ sync = SyncIdle
    /\ frontier = <<>>
    /\ blacklist = {}
    /\ verified = None
    /\ won_slot = {}
    /\ peers = [p \in Peers |-> [ready |-> FALSE, best_tip |-> None]]
    /\ rpc = [p \in Peers |-> [inflight |-> 0, next_id |-> 1]]
    /\ snark = [p \in Peers |-> [j \in Jobs |-> NoCandidate]]
    /\ last = EnvNote
    /\ OtherIdle

TestingNext ==
    \/ set_replay
    \/ \E event \in {"Det", "NonDet"} : testing_event_send(event)
    \/ testing_rpc_send
    \/ \E poll \in BOOLEAN : pending_events(poll)
    \/ next_pending_event
    \/ next_pending_event_rpc
    \/ next_pending_event_wait
    \/ \E n \in 1..MaxTestingSent : take_pending_event(n)

SpecTesting == TestingInit /\ [][TestingNext]_vars

\* C21: during a replay no event that should_drop_event holds of is added to
\* the pending events or returned by next_pending_event, by whichever path
\* the event was pulled from the real service.
C21_ReplayDropsNonDeterministic ==
    /\ \A i \in DOMAIN testing.added : ~should_drop_event(testing.added[i][1])
    /\ testing.is_replay => ~should_drop_event(testing.returned)

\* the paths that poll the receiver or wait for it do drop those events
C21_PolledAndWaitedDrop ==
    \A i \in DOMAIN testing.added :
        testing.added[i][2] \in {"poll", "wait"}
            => ~should_drop_event(testing.added[i][1])

\* a replay dropped an event on the waiting path and returned a later one
C21_WaitDropped ==
    /\ testing.is_replay /\ testing.returned = "Det"
    /\ testing.nsent = 2 /\ testing.rx = <<>> /\ Len(testing.pending_events) = 1


----------------------------------------------------------------------------
(* The candidates of the snark pool from advertisement to verification *)

candFrame ==
    UNCHANGED <<sync, frontier, blacklist, verified, won_slot, peers, rpc, otherVars>>

\* work.partial_cmp(v): the same order as that of the advertisements
work_cmp(work, v) ==
    IF info_gt(work, v) THEN "Greater"
    ELSE IF work.fee = v.fee /\ work.prover = v.prover THEN "Equal"
    ELSE "Less"

Enabled_WorkFetchError(p, j) == snark[p][j].st = "WorkFetchPending"

Enabled_WorkFetchSuccess(p, j, work) ==
    /\ snark_pool_contains(j)
    /\ \/ snark[p][j].st = "None"
       \/ CASE work_cmp(work, snark[p][j]) = "Less" -> FALSE
            [] work_cmp(work, snark[p][j]) = "Greater" -> TRUE
            [] OTHER -> snark[p][j].st = "WorkFetchPending"

Enabled_WorkVerifyPending(p, job_ids) ==
    /\ job_ids # {}
    /\ \A j \in job_ids : snark[p][j].st = "WorkReceived"

\* candidates.peer_work_count(peer_id) > 0
Enabled_PeerPrune(p) == \E j \in Jobs : snark[p][j].st # "None"

\* a fetch that failed removes the candidate
WorkFetchError(p, j) ==
    /\ Enabled_WorkFetchError(p, j)
    /\ snark' = [snark EXCEPT ![p][j] = NoCandidate]
    /\ last' = Note("WorkFetchError", p, None, None)
    /\ candFrame

\* the peer's response to a request in flight: a snark, whose job id is the
\* snark's own
WorkFetchSuccess(p, j, work) ==
    /\ rpc[p].inflight > 0
    /\ Enabled_WorkFetchSuccess(p, j, work)
    /\ snark' = [snark EXCEPT ![p][j] = Candidate("WorkReceived", work)]
    /\ rpc' = [rpc EXCEPT ![p].inflight = @ - 1]
    /\ last' = Note("WorkFetchSuccess", p, None, None)
    /\ UNCHANGED <<sync, frontier, blacklist, verified, won_slot, peers, otherVars>>

\* verify ids the verifier hands out before the model stops starting batches
MaxVerifyId == 2

\* the verification actions change the candidates and the verifier's requests
verifyFrame ==
    UNCHANGED <<sync, frontier, blacklist, verified, won_slot, peers, rpc,
                node, conn, inbound, outbound, events, testing, ledger, pool, core,
                webrtc>>

\* the verifier is idle and the node is synced
Enabled_WorkVerifyNext == work_verify.jobs = {} /\ is_synced(sync)

\* the enabling conditions of the two results: nothing is asked of the state
Enabled_WorkVerifyError(p, verify_id) == TRUE

Enabled_WorkVerifySuccess(p, verify_id) == TRUE

\* the next batch goes to the verifier under a new id, and the candidates of
\* the batch that are received wait for the verifier under that id
WorkVerifyPending(p, job_ids) ==
    /\ Enabled_WorkVerifyNext
    /\ work_verify.next_id <= MaxVerifyId
    /\ Enabled_WorkVerifyPending(p, job_ids)
    /\ snark' = [snark EXCEPT ![p] = [j \in Jobs |->
                    IF j \in job_ids /\ snark[p][j].st = "WorkReceived"
                    THEN [snark[p][j] EXCEPT !.st = "WorkVerifyPending",
                                             !.verify_id = work_verify.next_id]
                    ELSE snark[p][j]]]
    /\ work_verify' = [next_id |-> work_verify.next_id + 1,
                       jobs |-> work_verify.jobs \cup
                                  {[id |-> work_verify.next_id, peer |-> p]}]
    /\ last' = Note("WorkVerifyPending", p, work_verify.next_id, None)
    /\ verifyFrame

\* verify_result: the candidates of the peer that wait under the id get the
\* result
verify_result(p, verify_id, st) ==
    [snark EXCEPT ![p] = [j \in Jobs |->
        IF snark[p][j].st = "WorkVerifyPending" /\ snark[p][j].verify_id = verify_id
        THEN [snark[p][j] EXCEPT !.st = st]
        ELSE snark[p][j]]]

\* the verifier's answer to the request (p, verify_id): the request is done
verify_finished(p, verify_id) ==
    /\ [id |-> verify_id, peer |-> p] \in work_verify.jobs
    /\ work_verify' = [work_verify EXCEPT
                         !.jobs = @ \ {[id |-> verify_id, peer |-> p]}]

WorkVerifyError(p, verify_id) ==
    /\ verify_finished(p, verify_id)
    /\ Enabled_WorkVerifyError(p, verify_id)
    /\ snark' = verify_result(p, verify_id, "WorkVerifyError")
    /\ last' = Note("WorkVerifyError", p, verify_id, None)
    /\ verifyFrame

WorkVerifySuccess(p, verify_id) ==
    /\ verify_finished(p, verify_id)
    /\ Enabled_WorkVerifySuccess(p, verify_id)
    /\ snark' = verify_result(p, verify_id, "WorkVerifySuccess")
    /\ last' = Note("WorkVerifySuccess", p, verify_id, None)
    /\ verifyFrame

PeerPrune(p) ==
    /\ Enabled_PeerPrune(p)
    /\ snark' = [snark EXCEPT ![p] = [j \in Jobs |-> NoCandidate]]
    /\ last' = Note("PeerPrune", p, None, None)
    /\ candFrame

\* a job of the pool is done: it is no longer outstanding
JobRemoved(j) ==
    /\ j \in pool
    /\ pool' = pool \ {j}
    /\ last' = EnvNote
    /\ UNCHANGED <<sync, frontier, blacklist, verified, won_slot, peers, rpc, snark,
                   node, conn, inbound, outbound, events, testing, ledger, core,
                   work_verify, webrtc>>

\* a synced node, a ready peer and every job outstanding
CandInit ==
    /\ sync = SyncState("Synced", NoCert, FALSE, <<>>)
    /\ frontier = <<>>
    /\ blacklist = {}
    /\ verified = None
    /\ won_slot = {}
    /\ peers = [p \in Peers |-> [ready |-> p \in Connecting, best_tip |-> None]]
    /\ rpc = [p \in Peers |-> [inflight |-> 0, next_id |-> 1]]
    /\ snark = [p \in Peers |-> [j \in Jobs |-> NoCandidate]]
    /\ last = EnvNote
    /\ node = NodeInit /\ conn = ConnIdle /\ inbound = InboundIdle
    /\ outbound = OutboundIdle /\ events = EventsIdle
    /\ testing = TestingIdle /\ ledger = LedgerIdle /\ core = CoreIdle /\ work_verify = WorkVerifyIdle
    /\ webrtc = WebrtcIdle
    /\ pool = Jobs

CandNext ==
    \/ \E p \in Connecting, j \in Jobs, info \in Infos : InfoReceived(p, j, info)
    \/ \E p \in Connecting, j \in Jobs : WorkFetchInit(p, j)
    \/ \E p \in Connecting, j \in Jobs : WorkFetchPending(p, j)
    \/ \E p \in Connecting, j \in Jobs : WorkFetchError(p, j)
    \/ \E p \in Connecting, j \in Jobs, work \in Infos : WorkFetchSuccess(p, j, work)
    \/ \E p \in Connecting, job_ids \in SUBSET Jobs : WorkVerifyPending(p, job_ids)
    \/ \E p \in Connecting, verify_id \in 1..MaxVerifyId : WorkVerifyError(p, verify_id)
    \/ \E p \in Connecting, verify_id \in 1..MaxVerifyId : WorkVerifySuccess(p, verify_id)
    \/ \E p \in Connecting : PeerPrune(p)
    \/ \E p \in Connecting : RpcResponseReceived(p) /\ UNCHANGED pool
    \/ \E j \in Jobs : JobRemoved(j)

SpecCand == CandInit /\ [][CandNext]_vars

\* the candidate of (p, j) becomes an advertisement, or another one
InfoStored(p, j) ==
    /\ snark'[p][j].st = "InfoReceived"
    /\ snark'[p][j] # snark[p][j]

Entered(p, j, st) == snark'[p][j].st = st /\ snark[p][j].st # st

\* C23: a candidate enters WorkFetchPending only from InfoReceived,
\* WorkReceived only from WorkFetchPending, WorkVerifyPending only from
\* WorkReceived, Verified or Invalid only from WorkVerifyPending; a fetch
\* error is accepted only in WorkFetchPending.
C23_Stated_NoStageSkipped ==
    [][ \A p \in Peers, j \in Jobs :
          /\ Entered(p, j, "WorkFetchPending") => snark[p][j].st = "InfoReceived"
          /\ Entered(p, j, "WorkReceived") => snark[p][j].st = "WorkFetchPending"
          /\ Entered(p, j, "WorkVerifyPending") => snark[p][j].st = "WorkReceived"
          /\ (Entered(p, j, "WorkVerifySuccess") \/ Entered(p, j, "WorkVerifyError"))
                => snark[p][j].st = "WorkVerifyPending"
          /\ (last'.kind = "WorkFetchError" /\ last'.peer = p /\ snark'[p][j] # snark[p][j])
                => snark[p][j].st = "WorkFetchPending" ]_vars

\* the stages whose guards name the stage before them do follow it, and a
\* batch is started over received candidates only
C23_GuardedStagesInOrder ==
    [][ \A p \in Peers, j \in Jobs :
          /\ Entered(p, j, "WorkFetchPending") => snark[p][j].st = "InfoReceived"
          /\ Entered(p, j, "WorkVerifyPending") => snark[p][j].st = "WorkReceived"
          /\ (Entered(p, j, "WorkVerifySuccess") \/ Entered(p, j, "WorkVerifyError"))
                => snark[p][j].st = "WorkVerifyPending"
          /\ (last'.kind = "WorkFetchError" /\ last'.peer = p /\ snark'[p][j] # snark[p][j])
                => snark[p][j].st = "WorkFetchPending"
          /\ (last'.kind = "WorkVerifyPending" /\ last'.peer = p)
                => \A k \in Jobs : snark'[p][k] # snark[p][k]
                                      <=> snark'[p][k].st = "WorkVerifyPending"
                                          /\ snark[p][k].st = "WorkReceived" ]_vars

\* a batch of two candidates was verified
C23_BatchVerified ==
    \A j \in Jobs : snark["p1"][j].st = "WorkVerifySuccess"


----------------------------------------------------------------------------
(* The results of the verifier *)

\* the step accepts a result of the verifier for (p, verify_id)
ResultAccepted(p, verify_id) ==
    /\ last'.kind \in {"WorkVerifySuccess", "WorkVerifyError"}
    /\ last'.peer = p /\ last'.hash = verify_id

\* the candidates of p that wait for the verifier under verify_id
PendingBatch(p, verify_id) ==
    { j \in Jobs : /\ snark[p][j].st = "WorkVerifyPending"
                   /\ snark[p][j].verify_id = verify_id }

\* C39: a WorkVerifySuccess or WorkVerifyError for (peer_id, verify_id) is
\* accepted only while that peer has candidates in WorkVerifyPending with that
\* verify_id; a result with no such batch is dropped.
C39_Stated_ResultNeedsPendingBatch ==
    [][ \A p \in Peers, verify_id \in 1..MaxVerifyId :
          ResultAccepted(p, verify_id) => PendingBatch(p, verify_id) # {} ]_vars

\* the result of a batch was accepted after the peer's candidates were pruned
C39_StaleResultAccepted ==
    /\ last.kind \in {"WorkVerifySuccess", "WorkVerifyError"}
    /\ last.peer = "p1" /\ last.hash = 1
    /\ \A j \in Jobs : snark["p1"][j].st \notin {"WorkVerifySuccess", "WorkVerifyError"}
    /\ work_verify.jobs = {}

\* an accepted result changes the candidates of its batch and no other
C39_ResultChangesItsBatchOnly ==
    [][ \A p \in Peers, verify_id \in 1..MaxVerifyId :
          ResultAccepted(p, verify_id)
             => \A q \in Peers, j \in Jobs :
                   snark'[q][j] # snark[q][j]
                      => q = p /\ j \in PendingBatch(p, verify_id) ]_vars

----------------------------------------------------------------------------
(* The ledger and the application of a signed command *)

\* the greatest balance: the balances are 0..MaxBalance and a sum above it
\* overflows
MaxBalance == 3

\* constraint_constants.account_creation_fee
account_creation_fee == 1

\* the slot the transaction is applied in
txn_global_slot == 1

ledgerFrame ==
    UNCHANGED <<syncVars, node, conn, inbound, outbound, events, testing, pool, core, work_verify, webrtc>>

AccountIds == {"A", "B"}

Untimed == [timed |-> FALSE, min |-> 0]

\* Timing::Timed, by its minimum balance at the slot of the transaction
Timed(min) == [timed |-> TRUE, min |-> min]

Absent == [exists |-> FALSE]

\* Account::create_with(account_id, balance)
create_with(balance) ==
    [exists |-> TRUE, balance |-> balance, nonce |-> 0, receipt_chain_hash |-> 0,
     timing |-> Untimed, delegate |-> "self",
     send |-> TRUE, receive |-> TRUE, set_delegate |-> TRUE,
     increment_nonce |-> TRUE]

\* Balance::sub_amount and Balance::add_amount: None is -1
balance_sub_amount(balance, amount) ==
    IF amount <= balance THEN balance - amount ELSE -1

balance_add_amount(balance, amount) ==
    IF balance + amount <= MaxBalance THEN balance + amount ELSE -1

\* get_with_location: the location and the account, a fresh one when new
get_with_location(l, id) ==
    IF l[id].exists THEN [location |-> "Existing", account |-> l[id]]
    ELSE [location |-> "New", account |-> create_with(0)]

\* set_with_location: set, or create_new_account
set_with_location(l, id, account) == [l EXCEPT ![id] = account]

validate_time(valid_until, current_global_slot) == current_global_slot <= valid_until

validate_nonces(txn_nonce, account_nonce) == account_nonce = txn_nonce

\* validate_timing_with_min_balance_impl: the error, if any, and the timing
\* the mutant compares the balance left with nothing
Mut_validate_timing_with_min_balance_impl(account, txn_amount) ==
    [err |-> IF balance_sub_amount(account.balance, txn_amount) = -1
             THEN "InsufficientBalance" ELSE "None",
     timing |-> IF account.timing.timed /\ account.timing.min > 0
                THEN account.timing ELSE Untimed]

validate_timing_with_min_balance_impl(account, txn_amount) ==
    IF ~account.timing.timed
    THEN [err |-> IF balance_sub_amount(account.balance, txn_amount) = -1
                  THEN "InsufficientBalance" ELSE "None",
          timing |-> Untimed]
    ELSE LET proposed_new_balance == balance_sub_amount(account.balance, txn_amount)
             curr_min_balance == account.timing.min
             err == IF proposed_new_balance = -1 THEN "InsufficientBalance"
                    ELSE IF proposed_new_balance < curr_min_balance
                    THEN "InvalidTiming" ELSE "None"
         IN  [err |-> err,
              timing |-> IF proposed_new_balance # -1 /\ curr_min_balance = 0
                         THEN Untimed ELSE account.timing]

validate_timing(account, txn_amount) ==
    validate_timing_with_min_balance_impl(account, txn_amount)

\* timing_error_to_user_command_status
timing_error_to_user_command_status(err) ==
    IF err = "InvalidTiming" THEN "SourceMinimumBalanceViolation"
    ELSE "SourceInsufficientBalance"

\* pay_fee and pay_fee_impl: the fee payer's account with the fee paid, or
\* an error
pay_fee(l, cmd) ==
    LET got == get_with_location(l, cmd.fee_payer)
        account == got.account
        balance == balance_sub_amount(account.balance, cmd.fee)
        timing == validate_timing(account, cmd.fee)
    IN  IF cmd.fee_payer # cmd.signer THEN [err |-> "not the signer"]
        ELSE IF got.location = "New" THEN [err |-> "no fee payer account"]
        ELSE IF balance = -1 THEN [err |-> "insufficient funds"]
        ELSE IF ~validate_nonces(cmd.nonce, account.nonce) THEN [err |-> "nonce"]
        ELSE IF timing.err # "None" THEN [err |-> "timing"]
        ELSE [err |-> "None",
              account |-> [account EXCEPT
                             !.balance = balance,
                             !.nonce = account.nonce + 1,
                             !.receipt_chain_hash = account.receipt_chain_hash + 1,
                             !.timing = timing.timing]]

UpdatesErr(failure, reject_command) ==
    [ok |-> FALSE, failure |-> failure, reject_command |-> reject_command]

\* the mutant rejects the command when the receiver of a payment may not
\* receive
Mut_receive_failure(failure) == UpdatesErr(failure, TRUE)

\* the failure of compute_updates when the receiver may not receive
receive_failure(failure) == UpdatesErr(failure, FALSE)

\* the mutant sets the delegate before it reports the failure
Mut_failed_ledger(l, cmd, fee_payer_account) ==
    set_with_location(l, cmd.fee_payer,
                      [fee_payer_account EXCEPT !.delegate = cmd.receiver])

\* the ledger of a failed command: set by nothing but the charge of the fee
failed_ledger(l, cmd, fee_payer_account) == l

\* compute_updates: the ledger with the updates applied, or the failure
compute_updates(l, cmd, fee_payer_account) ==
    IF cmd.body = "StakeDelegation"
    THEN LET timing == validate_timing(fee_payer_account, 0)
         IN  IF get_with_location(l, cmd.receiver).location = "New"
             THEN UpdatesErr("ReceiverNotPresent", FALSE)
             ELSE IF ~fee_payer_account.set_delegate
             THEN UpdatesErr("UpdateNotPermittedDelegate", FALSE)
             ELSE IF timing.err # "None"
             THEN UpdatesErr(timing_error_to_user_command_status(timing.err), FALSE)
             ELSE [ok |-> TRUE,
                   ledger |-> set_with_location(l, cmd.fee_payer,
                                 [fee_payer_account EXCEPT
                                    !.delegate = cmd.receiver,
                                    !.timing = timing.timing]),
                   new_accounts |-> {}]
    ELSE LET balance == balance_sub_amount(fee_payer_account.balance, cmd.amount)
             timing == validate_timing(fee_payer_account, cmd.amount)
         IN  IF balance = -1
             THEN UpdatesErr("SourceInsufficientBalance", TRUE)
             ELSE IF timing.err # "None"
             THEN UpdatesErr(timing_error_to_user_command_status(timing.err), TRUE)
             ELSE
             LET payer == [fee_payer_account EXCEPT !.balance = balance,
                                                    !.timing = timing.timing]
                 got == IF cmd.fee_payer = cmd.receiver
                        THEN [location |-> "Existing", account |-> payer]
                        ELSE get_with_location(l, cmd.receiver)
                 receiver_amount ==
                     IF got.location = "Existing" THEN cmd.amount
                     ELSE IF cmd.amount >= account_creation_fee
                     THEN cmd.amount - account_creation_fee ELSE -1
                 receiver_balance ==
                     IF receiver_amount = -1 THEN -1
                     ELSE balance_add_amount(got.account.balance, receiver_amount)
                 receiver_account == [got.account EXCEPT !.balance = receiver_balance]
             IN  IF ~payer.send
                 THEN UpdatesErr("UpdateNotPermittedBalance", FALSE)
                 ELSE IF ~got.account.receive
                 THEN receive_failure("UpdateNotPermittedBalance")
                 ELSE IF receiver_amount = -1
                 THEN UpdatesErr("AmountInsufficientToCreateAccount", FALSE)
                 ELSE IF receiver_balance = -1
                 THEN UpdatesErr("Overflow", FALSE)
                 ELSE [ok |-> TRUE,
                       ledger |->
                         IF cmd.fee_payer = cmd.receiver
                         THEN set_with_location(l, cmd.receiver, receiver_account)
                         ELSE set_with_location(
                                 set_with_location(l, cmd.receiver, receiver_account),
                                 cmd.fee_payer, payer),
                       new_accounts |-> IF got.location = "New"
                                        THEN {cmd.receiver} ELSE {}]

\* apply_user_command_unchecked: the result and the ledger it leaves
apply_user_command_unchecked(l, cmd) ==
    LET paid == pay_fee(l, cmd)
    IN  IF ~validate_time(cmd.valid_until, txn_global_slot)
        THEN [res |-> "Err", failure |-> "expired", ledger |-> l]
        ELSE IF paid.err # "None"
        THEN [res |-> "Err", failure |-> paid.err, ledger |-> l]
        ELSE IF ~paid.account.send
        THEN [res |-> "Err", failure |-> "UpdateNotPermittedBalance", ledger |-> l]
        ELSE IF ~paid.account.increment_nonce
        THEN [res |-> "Err", failure |-> "UpdateNotPermittedNonce", ledger |-> l]
        ELSE LET charged == set_with_location(l, cmd.fee_payer, paid.account)
                 updates == compute_updates(charged, cmd, paid.account)
             IN  IF updates.ok
                 THEN [res |-> "Applied", failure |-> "None",
                       ledger |-> updates.ledger]
                 ELSE IF ~updates.reject_command
                 THEN [res |-> "Failed", failure |-> updates.failure,
                       ledger |-> failed_ledger(charged, cmd, paid.account)]
                 ELSE [res |-> "Err", failure |-> updates.failure,
                       ledger |-> charged]

\* the accounts a transaction is applied to
FeePayerAccounts ==
    { [create_with(b) EXCEPT !.timing = t, !.send = s, !.set_delegate = d,
                             !.increment_nonce = n] :
        b \in 0..MaxBalance, t \in {Untimed, Timed(0), Timed(1), Timed(2)},
        s \in BOOLEAN, d \in BOOLEAN, n \in BOOLEAN }

ReceiverAccounts ==
    {Absent} \cup { [create_with(b) EXCEPT !.receive = r] :
                      b \in {0, MaxBalance}, r \in BOOLEAN }

SignedCommands ==
    [body : {"Payment", "StakeDelegation"}, signer : {"A"}, fee_payer : {"A"},
     receiver : AccountIds, fee : 1..2, amount : 0..2, nonce : 0..1,
     valid_until : {txn_global_slot}]
      \cup [body : {"Payment"}, signer : {"A"}, fee_payer : {"A"}, receiver : {"B"},
            fee : {1}, amount : {1}, nonce : {0}, valid_until : {0}]

\* a ledger, a signed command, and nothing applied yet
UserCommandInit ==
    /\ sync = SyncIdle
    /\ frontier = <<>>
    /\ blacklist = {}
    /\ verified = None
    /\ won_slot = {}
    /\ peers = [p \in Peers |-> [ready |-> FALSE, best_tip |-> None]]
    /\ rpc = [p \in Peers |-> [inflight |-> 0, next_id |-> 1]]
    /\ snark = [p \in Peers |-> [j \in Jobs |-> NoCandidate]]
    /\ last = EnvNote
    /\ node = NodeInit /\ conn = ConnIdle /\ inbound = InboundIdle
    /\ outbound = OutboundIdle /\ events = EventsIdle
    /\ testing = TestingIdle /\ pool = PoolIdle /\ core = CoreIdle /\ work_verify = WorkVerifyIdle
    /\ webrtc = WebrtcIdle
    /\ \E a \in FeePayerAccounts, b \in ReceiverAccounts, cmd \in SignedCommands :
          ledger = [op |-> "signed_command", cmd |-> cmd,
                    before |-> [id \in AccountIds |-> IF id = "A" THEN a ELSE b]]

apply_user_command ==
    /\ ledger.op = "signed_command"
    /\ LET r == apply_user_command_unchecked(ledger.before, ledger.cmd)
       IN  ledger' = [op |-> "signed_command_applied", cmd |-> ledger.cmd,
                      before |-> ledger.before, after |-> r.ledger,
                      res |-> r.res, failure |-> r.failure]
    /\ ledgerFrame

UserCommandNext == apply_user_command

SpecUserCommand == UserCommandInit /\ [][UserCommandNext]_vars

SignedCommandApplied == ledger.op = "signed_command_applied"

\* C24: when a signed command is applied with status Failed, the ledger
\* differs from the ledger before only in the fee payer's account: its balance
\* is lower by the fee, its nonce higher by one, its receipt chain hash and
\* timing are those of the fee payment, nothing else of it changes, and no
\* other account is created or changed.
C24_FailedChargesFeeOnly ==
    (SignedCommandApplied /\ ledger.res = "Failed") =>
        LET payer == ledger.cmd.fee_payer
            old == ledger.before[payer]
            new == ledger.after[payer]
        IN  /\ \A id \in AccountIds \ {payer} : ledger.after[id] = ledger.before[id]
            /\ old.exists /\ new.exists
            /\ new.balance = old.balance - ledger.cmd.fee
            /\ new.nonce = old.nonce + 1
            /\ new.receipt_chain_hash = old.receipt_chain_hash + 1
            /\ new.timing = validate_timing(old, ledger.cmd.fee).timing
            /\ new = [old EXCEPT !.balance = new.balance, !.nonce = new.nonce,
                                 !.receipt_chain_hash = new.receipt_chain_hash,
                                 !.timing = new.timing]

\* a payment to an account that may not receive failed, and the timed fee
\* payer became untimed by the payment of the fee
C24_Witness ==
    /\ SignedCommandApplied /\ ledger.res = "Failed"
    /\ ledger.cmd.body = "Payment" /\ ledger.cmd.amount > 0
    /\ ledger.before["B"].exists /\ ~ledger.before["B"].receive
    /\ ledger.before["A"].timing.timed /\ ~ledger.after["A"].timing.timed

\* a stake delegation failed
C24_DelegationFailed ==
    /\ SignedCommandApplied /\ ledger.res = "Failed"
    /\ ledger.cmd.body = "StakeDelegation"

\* the fee payer of the command cannot pay the fee
InsufficientForFee ==
    balance_sub_amount(ledger.before[ledger.cmd.fee_payer].balance, ledger.cmd.fee) = -1

\* the command was rejected: a hard error after the fee was charged
Rejected ==
    /\ SignedCommandApplied /\ ledger.res = "Err"
    /\ ledger.after # ledger.before

\* C25 as stated: the command is rejected only when the fee payer has
\* insufficient funds for the fee.
C25_Stated_RejectedOnlyForFee == Rejected => InsufficientForFee

\* C25: the command is rejected only when it is a payment whose fee payer,
\* after the fee is paid, cannot send the amount: the balance left is below
\* the amount, or sending it would leave less than the minimum balance of a
\* timed account; every other failure of the body's updates is reported as
\* status Failed with the fee charged.
C25_RejectedOnlyForAmount ==
    LET payer == ledger.cmd.fee_payer
        paid == pay_fee(ledger.before, ledger.cmd).account
    IN  /\ Rejected =>
              /\ ledger.cmd.body = "Payment"
              /\ ledger.failure \in {"SourceInsufficientBalance",
                                     "SourceMinimumBalanceViolation"}
              /\ \/ paid.balance < ledger.cmd.amount
                 \/ paid.timing.timed
                      /\ paid.balance - ledger.cmd.amount < paid.timing.min
              /\ ~InsufficientForFee
        /\ (SignedCommandApplied /\ ledger.res = "Failed") =>
              /\ ledger.after[payer].balance
                    = ledger.before[payer].balance - ledger.cmd.fee
              /\ ledger.failure \in {"ReceiverNotPresent", "UpdateNotPermittedDelegate",
                                     "UpdateNotPermittedBalance",
                                     "AmountInsufficientToCreateAccount", "Overflow"}

\* a payment was rejected for the amount, and another failure was reported
\* as a failed status
C25_Witness ==
    /\ Rejected /\ ledger.failure = "SourceMinimumBalanceViolation"

\* a payment that overflows the receiver's balance has status Failed
C25_OverflowFailed ==
    SignedCommandApplied /\ ledger.res = "Failed" /\ ledger.failure = "Overflow"


----------------------------------------------------------------------------
(* The second pass of a zkApp command *)

\* the most account updates of a command after the fee payer's
MaxUpdates == 2

\* an account update: the account and the change of its balance
AccountUpdates == [id : AccountIds, change : {-1, 1, 2}]

\* the account update applied to the ledger: the failures it records, and
\* the ledger with the account set
apply_account_update(l, u) ==
    LET got == get_with_location(l, u.id)
        change == IF got.location = "New" THEN u.change - account_creation_fee
                  ELSE u.change
        balance == got.account.balance + change
    IN  IF ~got.account.receive /\ u.change > 0
        THEN [failures |-> <<"UpdateNotPermittedBalance">>, ledger |-> l]
        ELSE IF balance < 0 \/ balance > MaxBalance
        THEN [failures |-> <<"Overflow">>, ledger |-> l]
        ELSE [failures |-> <<>>,
              ledger |-> set_with_location(l, u.id,
                            [got.account EXCEPT !.balance = balance])]

\* the mutant commits the local ledger of a failed command too
Mut_set_second_pass_ledger(g, should_update, l) == l

\* GlobalState::set_second_pass_ledger
set_second_pass_ledger(g, should_update, l) == IF should_update THEN l ELSE g

\* zkapps::non_snark::step: the next account update is applied to the local
\* ledger, its failures are put in front of the table, and after the last
\* update the local ledger becomes the second pass ledger if all succeeded
step(st) ==
    LET u == Head(st.calls)
        r == apply_account_update(st.local, u)
        success == st.success /\ r.failures = <<>>
        is_last == Tail(st.calls) = <<>>
    IN  [calls |-> Tail(st.calls),
         local |-> r.ledger,
         success |-> success,
         failure_status_tbl |-> <<r.failures>> \o st.failure_status_tbl,
         global |-> IF is_last
                    THEN set_second_pass_ledger(st.global, success, r.ledger)
                    ELSE st.global]

RECURSIVE step_all(_)
step_all(st) == IF st.calls = <<>> THEN st ELSE step_all(step(st))

Rev(seq) == [i \in 1..Len(seq) |-> seq[Len(seq) + 1 - i]]

\* the mutant cancels the empty row of the fee payer too
Mut_cancel_rows(tbl) ==
    [idx \in 1..Len(tbl) |->
        IF tbl[idx] = <<>> THEN <<"Cancelled">> ELSE tbl[idx]]

\* the rows of the updates that recorded no failure become [Cancelled]
cancel_rows(tbl) ==
    [idx \in 1..Len(tbl) |->
        IF idx > 1 /\ tbl[idx] = <<>> THEN <<"Cancelled">> ELSE tbl[idx]]

\* the accounts not originally in the ledger that are in it now
new_accounts(original, l) ==
    { id \in AccountIds : ~original[id].exists /\ l[id].exists }

\* apply_zkapp_command_second_pass_aux, on the ledger the pass is given and
\* the states of the accounts before the first pass
apply_zkapp_command_second_pass_aux(l, original_first_pass, calls) ==
    LET original_account_states ==
            [id \in AccountIds |-> IF id = "A" THEN original_first_pass ELSE l[id]]
        stepped == step_all([calls |-> calls, local |-> l, success |-> TRUE,
                             failure_status_tbl |-> <<<<>>>>, global |-> l])
        after == stepped.global
        failure_status_tbl == Rev(stepped.failure_status_tbl)
        successfully_applied == \A i \in DOMAIN failure_status_tbl :
                                   failure_status_tbl[i] = <<>>
        created == new_accounts(original_account_states, after)
        \* the states after the fee payer are read when they are compared
        account_states_after_fee_payer == after
        other_account_update_accounts_unchanged ==
            \A id \in AccountIds :
                account_states_after_fee_payer[id].exists
                    => account_states_after_fee_payer[id] = after[id]
    IN  IF successfully_applied
        THEN [res |-> "Applied", tbl |-> failure_status_tbl, ledger |-> after,
              new_accounts |-> created]
        ELSE IF created = {} /\ other_account_update_accounts_unchanged
        THEN [res |-> "Failed", tbl |-> cancel_rows(failure_status_tbl),
              ledger |-> after, new_accounts |-> created]
        ELSE [res |-> "Err", tbl |-> <<>>, ledger |-> after, new_accounts |-> created]

\* the failure lists the updates record, in the order they are stepped
RECURSIVE failures_of(_, _)
failures_of(l, calls) ==
    IF calls = <<>> THEN <<>>
    ELSE LET r == apply_account_update(l, Head(calls))
         IN  <<r.failures>> \o failures_of(r.ledger, Tail(calls))

\* a ledger after the first pass and the account updates that are left
ZkappInit ==
    /\ sync = SyncIdle
    /\ frontier = <<>>
    /\ blacklist = {}
    /\ verified = None
    /\ won_slot = {}
    /\ peers = [p \in Peers |-> [ready |-> FALSE, best_tip |-> None]]
    /\ rpc = [p \in Peers |-> [inflight |-> 0, next_id |-> 1]]
    /\ snark = [p \in Peers |-> [j \in Jobs |-> NoCandidate]]
    /\ last = EnvNote
    /\ node = NodeInit /\ conn = ConnIdle /\ inbound = InboundIdle
    /\ outbound = OutboundIdle /\ events = EventsIdle
    /\ testing = TestingIdle /\ pool = PoolIdle /\ core = CoreIdle /\ work_verify = WorkVerifyIdle
    /\ webrtc = WebrtcIdle
    /\ \E a \in 0..(MaxBalance - 1), b \in ReceiverAccounts, n \in 1..MaxUpdates :
       \E calls \in [1..n -> AccountUpdates] :
          ledger = [op |-> "zkapp", calls |-> calls,
                    original |-> create_with(a + 1),
                    before |-> [id \in AccountIds |->
                                   IF id = "A"
                                   THEN [create_with(a) EXCEPT !.nonce = 1]
                                   ELSE b]]

apply_zkapp_command_second_pass ==
    /\ ledger.op = "zkapp"
    /\ LET r == apply_zkapp_command_second_pass_aux(ledger.before, ledger.original,
                                                    ledger.calls)
       IN  ledger' = [op |-> "zkapp_applied", calls |-> ledger.calls,
                      original |-> ledger.original, before |-> ledger.before,
                      after |-> r.ledger, res |-> r.res, tbl |-> r.tbl,
                      new_accounts |-> r.new_accounts]
    /\ ledgerFrame

ZkappNext == apply_zkapp_command_second_pass

SpecZkapp == ZkappInit /\ [][ZkappNext]_vars

ZkappApplied == ledger.op = "zkapp_applied"

\* C26: when an account update fails the status is Failed(tbl): tbl[0] is
\* the row of the fee payer, never replaced by Cancelled; the rows after it
\* are those of the account updates in the order they were stepped, each the
\* update's own failures if it recorded any and [Cancelled] otherwise; when
\* no update fails the status is Applied.
C26_FailureTable ==
    ZkappApplied =>
        LET fs == failures_of(ledger.before, ledger.calls)
            failed == \E i \in DOMAIN fs : fs[i] # <<>>
        IN  /\ ~failed <=> ledger.res = "Applied"
            /\ failed =>
                 /\ ledger.res = "Failed"
                 /\ Len(ledger.tbl) = Len(ledger.calls) + 1
                 /\ ledger.tbl[1] = <<>>
                 /\ \A i \in DOMAIN fs :
                       ledger.tbl[i + 1] = IF fs[i] # <<>> THEN fs[i]
                                           ELSE <<"Cancelled">>

\* the first update recorded no failure and the second failed
C26_Witness ==
    /\ ZkappApplied /\ ledger.res = "Failed"
    /\ ledger.tbl = << <<>>, <<"Cancelled">>, <<"Overflow">> >>

\* the first update failed and the second recorded no failure
C26_FirstFailed ==
    /\ ZkappApplied /\ ledger.res = "Failed"
    /\ ledger.tbl = << <<>>, <<"UpdateNotPermittedBalance">>, <<"Cancelled">> >>

----------------------------------------------------------------------------
(* The verifiable form of a zkApp command *)

\* the most account updates of a command that is made verifiable
MaxVkUpdates == 3

\* a verification key is known by its hash; NoVk is no key
NoVk == 0

\* in vks_overridden: the key of the account was erased
Erased == -1

VkHashes == {1, 2}

\* the account updates: the account, the authorization and its kind, the
\* hash a proof expects, and the key the update sets (NoVk for Keep)
VkUpdates ==
    [id : {"A"}, authorization : {"Proof"}, authorization_kind : {"Proof"},
     vk_hash : VkHashes, set : {NoVk} \cup VkHashes]
      \cup [id : {"A"}, authorization : {"Signature", "NoneGiven"},
            authorization_kind : {"Signature"}, vk_hash : {NoVk},
            set : {NoVk} \cup VkHashes]
      \cup [id : {"B"}, authorization : {"Proof"}, authorization_kind : {"Proof"},
            vk_hash : {2}, set : {NoVk}]
      \cup [id : {"B"}, authorization : {"Signature"},
            authorization_kind : {"Signature"}, vk_hash : {NoVk}, set : {NoVk, 2}]

\* the keys of the accounts in the ledger
LedgerVks == [A |-> 1, B |-> NoVk]

VkErr == [ok |-> FALSE, vk |-> NoVk]

ok_if_vk_hash_expected(got, expected) ==
    IF got = expected THEN [ok |-> TRUE, vk |-> got] ELSE VkErr

find_vk_via_ledger(vks, expected_vk_hash, account_id) ==
    IF vks[account_id] # NoVk
    THEN ok_if_vk_hash_expected(vks[account_id], expected_vk_hash)
    ELSE VkErr

check_authorization(p) == p.authorization = p.authorization_kind

\* the mutant looks every key up in the ledger
Mut_prioritized_vk(vks_overridden, vks, p) ==
    find_vk_via_ledger(vks, p.vk_hash, p.id)

\* the key a proved update is checked against: vks_overridden maps the
\* accounts whose key was set so far to the key, or to Erased
prioritized_vk(vks_overridden, vks, p) ==
    IF p.id \in DOMAIN vks_overridden
    THEN IF vks_overridden[p.id] # Erased
         THEN ok_if_vk_hash_expected(vks_overridden[p.id], p.vk_hash)
         ELSE VkErr
    ELSE find_vk_via_ledger(vks, p.vk_hash, p.id)

\* vks_overridden.insert(account_id, Some(vk_next))
vks_insert(vks_overridden, p) ==
    IF p.set = NoVk THEN vks_overridden
    ELSE [id \in DOMAIN vks_overridden \cup {p.id} |->
             IF id = p.id THEN p.set ELSE vks_overridden[id]]

\* verifiable::create: the keys associated with the updates, or an error
RECURSIVE verifiable_create(_, _, _, _)
verifiable_create(updates, is_failed, vks, vks_overridden) ==
    IF updates = <<>> THEN [ok |-> TRUE, vks |-> <<>>]
    ELSE LET p == Head(updates)
             checked == IF p.authorization_kind = "Proof" /\ ~is_failed
                        THEN prioritized_vk(vks_overridden, vks, p)
                        ELSE [ok |-> TRUE, vk |-> NoVk]
             rest == verifiable_create(Tail(updates), is_failed, vks,
                                       vks_insert(vks_overridden, p))
         IN  IF ~check_authorization(p) \/ ~checked.ok \/ ~rest.ok
             THEN [ok |-> FALSE, vks |-> <<>>]
             ELSE [ok |-> TRUE, vks |-> <<checked.vk>> \o rest.vks]

\* a command and whether its status is failed
VerifiableInit ==
    /\ sync = SyncIdle
    /\ frontier = <<>>
    /\ blacklist = {}
    /\ verified = None
    /\ won_slot = {}
    /\ peers = [p \in Peers |-> [ready |-> FALSE, best_tip |-> None]]
    /\ rpc = [p \in Peers |-> [inflight |-> 0, next_id |-> 1]]
    /\ snark = [p \in Peers |-> [j \in Jobs |-> NoCandidate]]
    /\ last = EnvNote
    /\ node = NodeInit /\ conn = ConnIdle /\ inbound = InboundIdle
    /\ outbound = OutboundIdle /\ events = EventsIdle
    /\ testing = TestingIdle /\ pool = PoolIdle /\ core = CoreIdle /\ work_verify = WorkVerifyIdle
    /\ webrtc = WebrtcIdle
    /\ \E n \in 1..MaxVkUpdates, is_failed \in BOOLEAN :
       \E updates \in [1..n -> VkUpdates] :
          ledger = [op |-> "verifiable", updates |-> updates, is_failed |-> is_failed]

create ==
    /\ ledger.op = "verifiable"
    /\ LET r == verifiable_create(ledger.updates, ledger.is_failed, LedgerVks, <<>>)
       IN  ledger' = [op |-> "verifiable_created", updates |-> ledger.updates,
                      is_failed |-> ledger.is_failed, ok |-> r.ok, vks |-> r.vks]
    /\ ledgerFrame

VerifiableNext == create

SpecVerifiable == VerifiableInit /\ [][VerifiableNext]_vars

\* the earlier updates of the account of update i that set its key
EarlierSets(i) ==
    { j \in 1..(i - 1) : /\ ledger.updates[j].id = ledger.updates[i].id
                         /\ ledger.updates[j].set # NoVk }

Latest(S) == CHOOSE j \in S : \A k \in S : k <= j

\* the key in force before update i: the one the latest earlier update of
\* the account set, and the one in the ledger when there is none
KeyInForce(i) ==
    IF EarlierSets(i) # {} THEN ledger.updates[Latest(EarlierSets(i))].set
    ELSE LedgerVks[ledger.updates[i].id]

ProofUpdates == { i \in DOMAIN ledger.updates :
                     ledger.updates[i].authorization_kind = "Proof" }

AuthorizationsMatch ==
    \A i \in DOMAIN ledger.updates : check_authorization(ledger.updates[i])

\* C28 as stated: whenever the verifiable form is built, every
\* proof-authorized update was checked against the key in force before it.
C28_Stated_EveryProofChecked ==
    (ledger.op = "verifiable_created" /\ ledger.ok) =>
        \A i \in ProofUpdates : ledger.updates[i].vk_hash = KeyInForce(i)

\* C28: when the verifiable form of a command that is not failed is built,
\* every proof-authorized update is checked against, and associated with,
\* the key the latest earlier update of its account set, or the key in the
\* ledger when no earlier update set one; an update that sets the key is
\* checked against the key before it; the form of a failed command is built
\* without any key.
C28_ProofCheckedAgainstKeyInForce ==
    ledger.op = "verifiable_created" =>
        IF ledger.is_failed
        THEN /\ ledger.ok <=> AuthorizationsMatch
             /\ ledger.ok => \A i \in DOMAIN ledger.vks : ledger.vks[i] = NoVk
        ELSE /\ ledger.ok <=>
                   /\ AuthorizationsMatch
                   /\ \A i \in ProofUpdates :
                         /\ KeyInForce(i) # NoVk
                         /\ ledger.updates[i].vk_hash = KeyInForce(i)
             /\ ledger.ok =>
                   \A i \in DOMAIN ledger.vks :
                       ledger.vks[i] = IF i \in ProofUpdates THEN KeyInForce(i)
                                       ELSE NoVk

\* the key of the ledger was replaced twice, by an update that was itself
\* checked against the key before it, and a proof was checked against the
\* latest
C28_Witness ==
    /\ ledger.op = "verifiable_created" /\ ledger.ok /\ ~ledger.is_failed
    /\ Len(ledger.updates) = 3
    /\ ledger.updates[1].set = 2
    /\ ledger.updates[2].authorization_kind = "Proof" /\ ledger.updates[2].set = 1
    /\ ledger.vks = <<NoVk, 2, 1>>

\* a proof for the key of the ledger is refused after the key was replaced
C28_OverrideRefuses ==
    /\ ledger.op = "verifiable_created" /\ ~ledger.ok /\ ~ledger.is_failed
    /\ Len(ledger.updates) = 2
    /\ ledger.updates[1].set = 2 /\ ledger.updates[1].authorization = "Signature"
    /\ ledger.updates[2].authorization_kind = "Proof"
    /\ ledger.updates[2].vk_hash = 1 /\ ledger.updates[2].id = "A"


----------------------------------------------------------------------------
(* Fee transfers *)

\* the greatest fee of a fee transfer
MaxFee == 2

\* FailureCollection: a sequence of rows of failures
failures_empty == <<>>

no_failure == <<>>

single_failure == << <<"UpdateNotPermittedBalance">> >>

update_failed == <<"UpdateNotPermittedBalance">>

append_entry(list, coll) ==
    IF coll = <<>> THEN <<list>>
    ELSE <<coll[1], list>> \o Tail(coll)

failures_is_empty(coll) == \A i \in DOMAIN coll : coll[i] = <<>>

\* Amount::checked_add: None is -1
checked_add(a, b) == IF a + b <= MaxBalance THEN a + b ELSE -1

\* the mutant lets an account that is not in the ledger receive nothing
Mut_has_permission_to_receive(l, id) ==
    IF l[id].exists
    THEN [account |-> l[id], action |-> "Existed", can_receive |-> l[id].receive]
    ELSE [account |-> create_with(0), action |-> "Added", can_receive |-> FALSE]

\* has_permission_to_receive: the account, or the initial one of a new
\* account, and whether it may receive
has_permission_to_receive(l, id) ==
    IF l[id].exists
    THEN [account |-> l[id], action |-> "Existed", can_receive |-> l[id].receive]
    ELSE [account |-> create_with(0), action |-> "Added",
          can_receive |-> create_with(0).receive]

\* the mutant charges a new account nothing
Mut_sub_account_creation_fee(action, amount) ==
    IF action = "Added"
    THEN IF amount >= account_creation_fee THEN amount ELSE -1
    ELSE amount

\* sub_account_creation_fee: -1 is the error
sub_account_creation_fee(action, amount) ==
    IF action = "Added"
    THEN IF amount >= account_creation_fee THEN amount - account_creation_fee ELSE -1
    ELSE amount

\* the closure of apply_fee_transfer that gives the new balance
modify_balance(action, balance, fee) ==
    LET amount == sub_account_creation_fee(action, fee)
    IN  IF amount = -1 THEN -1 ELSE balance_add_amount(balance, amount)

update_timing_when_no_deduction(account) == validate_timing(account, 0)

get_new_accounts(action, id) == IF action = "Added" THEN {id} ELSE {}

FeeTransferErr(l) ==
    [ok |-> FALSE, new_accounts |-> {}, failures |-> <<>>, burned_tokens |-> 0,
     ledger |-> l]

\* one receiver, of one fee or of the sum of two
process_one(l, id, fee, rows) ==
    LET r == has_permission_to_receive(l, id)
        timing == update_timing_when_no_deduction(r.account)
        balance == modify_balance(r.action, r.account.balance, fee)
    IN  IF timing.err # "None" \/ balance = -1 THEN FeeTransferErr(l)
        ELSE IF r.can_receive
        THEN [ok |-> TRUE, new_accounts |-> get_new_accounts(r.action, id),
              failures |-> failures_empty, burned_tokens |-> 0,
              ledger |-> set_with_location(l, id,
                            [r.account EXCEPT !.balance = balance,
                                              !.timing = timing.timing])]
        ELSE [ok |-> TRUE, new_accounts |-> {},
              failures |-> IF rows = 1 THEN single_failure
                           ELSE append_entry(update_failed, single_failure),
              burned_tokens |-> fee, ledger |-> l]

\* process_fee_transfer: ft is a sequence of one or two single transfers
process_fee_transfer(l, ft) ==
    IF Len(ft) = 1 THEN process_one(l, ft[1].receiver, ft[1].fee, 1)
    ELSE IF ft[1].receiver = ft[2].receiver
    THEN IF checked_add(ft[1].fee, ft[2].fee) = -1 THEN FeeTransferErr(l)
         ELSE process_one(l, ft[1].receiver, checked_add(ft[1].fee, ft[2].fee), 2)
    ELSE LET r1 == has_permission_to_receive(l, ft[1].receiver)
             r2 == has_permission_to_receive(l, ft[2].receiver)
             balance1 == modify_balance(r1.action, r1.account.balance, ft[1].fee)
             timing2 == update_timing_when_no_deduction(r2.account)
             balance2 == modify_balance(r2.action, r2.account.balance, ft[2].fee)
             l1 == IF r1.can_receive
                   THEN set_with_location(l, ft[1].receiver,
                           [r1.account EXCEPT !.balance = balance1])
                   ELSE l
             failures1 == IF r1.can_receive
                          THEN append_entry(no_failure, failures_empty)
                          ELSE single_failure
             l2 == IF r2.can_receive
                   THEN set_with_location(l1, ft[2].receiver,
                           [r2.account EXCEPT !.balance = balance2,
                                              !.timing = timing2.timing])
                   ELSE l1
             failures2 == IF r2.can_receive
                          THEN append_entry(no_failure, failures1)
                          ELSE append_entry(update_failed, failures1)
             burned_tokens == checked_add(IF r1.can_receive THEN 0 ELSE ft[1].fee,
                                          IF r2.can_receive THEN 0 ELSE ft[2].fee)
         IN  IF balance1 = -1 \/ timing2.err # "None" \/ balance2 = -1
             THEN FeeTransferErr(l)
             ELSE IF burned_tokens = -1
             THEN FeeTransferErr(l2)
             ELSE [ok |-> TRUE,
                   new_accounts |->
                       (IF r1.can_receive
                        THEN get_new_accounts(r1.action, ft[1].receiver) ELSE {})
                       \cup (IF r2.can_receive
                             THEN get_new_accounts(r2.action, ft[2].receiver) ELSE {}),
                   failures |-> failures2, burned_tokens |-> burned_tokens,
                   ledger |-> l2]

\* apply_fee_transfer: the status, the new accounts and the burned tokens
apply_fee_transfer_result(l, ft) ==
    LET r == process_fee_transfer(l, ft)
    IN  [res |-> IF ~r.ok THEN "Err"
                 ELSE IF failures_is_empty(r.failures) THEN "Applied" ELSE "Failed",
         failures |-> r.failures, new_accounts |-> r.new_accounts,
         burned_tokens |-> r.burned_tokens, ledger |-> r.ledger]

\* the accounts that receive: absent, or with or without the permission
TransferAccounts ==
    {Absent} \cup { [create_with(b) EXCEPT !.receive = r, !.timing = t] :
                      b \in {0, 1, MaxBalance}, r \in BOOLEAN,
                      t \in {Untimed, Timed(0)} }
           \cup { [create_with(b) EXCEPT !.receive = r, !.timing = Timed(1)] :
                      b \in {1, MaxBalance}, r \in BOOLEAN }

SingleTransfers == [receiver : AccountIds, fee : 0..MaxFee]

FeeTransfers == [1..1 -> SingleTransfers] \cup [1..2 -> SingleTransfers]

FeeTransferInit ==
    /\ sync = SyncIdle
    /\ frontier = <<>>
    /\ blacklist = {}
    /\ verified = None
    /\ won_slot = {}
    /\ peers = [p \in Peers |-> [ready |-> FALSE, best_tip |-> None]]
    /\ rpc = [p \in Peers |-> [inflight |-> 0, next_id |-> 1]]
    /\ snark = [p \in Peers |-> [j \in Jobs |-> NoCandidate]]
    /\ last = EnvNote
    /\ node = NodeInit /\ conn = ConnIdle /\ inbound = InboundIdle
    /\ outbound = OutboundIdle /\ events = EventsIdle
    /\ testing = TestingIdle /\ pool = PoolIdle /\ core = CoreIdle /\ work_verify = WorkVerifyIdle
    /\ webrtc = WebrtcIdle
    /\ \E a \in TransferAccounts, b \in TransferAccounts, ft \in FeeTransfers :
          ledger = [op |-> "fee_transfer", ft |-> ft,
                    before |-> [id \in AccountIds |-> IF id = "A" THEN a ELSE b]]

apply_fee_transfer ==
    /\ ledger.op = "fee_transfer"
    /\ LET r == apply_fee_transfer_result(ledger.before, ledger.ft)
       IN  ledger' = [op |-> "fee_transfer_applied", ft |-> ledger.ft,
                      before |-> ledger.before, after |-> r.ledger, res |-> r.res,
                      failures |-> r.failures, new_accounts |-> r.new_accounts,
                      burned_tokens |-> r.burned_tokens]
    /\ ledgerFrame

FeeTransferNext == apply_fee_transfer

SpecFeeTransfer == FeeTransferInit /\ [][FeeTransferNext]_vars

FeeTransferApplied ==
    ledger.op = "fee_transfer_applied" /\ ledger.res \in {"Applied", "Failed"}

\* the receiver may receive: an account with the permission, or a new one
CanReceive(id) == ledger.before[id].exists => ledger.before[id].receive

\* the fees of the single transfers to the receiver
RECURSIVE FeesTo(_, _)
FeesTo(ft, id) ==
    IF ft = <<>> THEN 0
    ELSE (IF Head(ft).receiver = id THEN Head(ft).fee ELSE 0) + FeesTo(Tail(ft), id)

Receivers == { ledger.ft[i].receiver : i \in DOMAIN ledger.ft }

BalanceOf(l, id) == IF l[id].exists THEN l[id].balance ELSE 0

\* the failure rows, the burned tokens and the status of C29
FailureRows ==
    /\ \A i \in DOMAIN ledger.ft :
          ~CanReceive(ledger.ft[i].receiver)
             => ledger.failures[i] = <<"UpdateNotPermittedBalance">>
    /\ \A i \in DOMAIN ledger.failures :
          ledger.failures[i] = IF CanReceive(ledger.ft[i].receiver) THEN <<>>
                               ELSE <<"UpdateNotPermittedBalance">>
    /\ ledger.burned_tokens = FeesTo(ledger.ft, "A") * (IF CanReceive("A") THEN 0 ELSE 1)
                            + FeesTo(ledger.ft, "B") * (IF CanReceive("B") THEN 0 ELSE 1)
    /\ ledger.res = "Applied" <=> \A id \in Receivers : CanReceive(id)
    /\ \A id \in AccountIds :
          (id \notin Receivers \/ ~CanReceive(id)) => ledger.after[id] = ledger.before[id]

\* C29 as stated: every receiver that may receive is credited with its fee.
C29_Stated_CreditedWithFee ==
    FeeTransferApplied =>
        /\ FailureRows
        /\ \A id \in Receivers :
              CanReceive(id) =>
                  BalanceOf(ledger.after, id)
                     = BalanceOf(ledger.before, id) + FeesTo(ledger.ft, id)

\* C29: a fee transfer credits each receiver that may receive with its fee,
\* less the account creation fee when the account is new; a receiver that may
\* not receive is left unchanged and uncreated, has a failure row at its
\* position, and its share is burned: burned_tokens is the sum of the fees of
\* exactly those receivers, and the status is Applied only if every receiver
\* could receive.
C29_CreditedOrBurned ==
    FeeTransferApplied =>
        /\ FailureRows
        /\ \A id \in Receivers :
              CanReceive(id) =>
                  /\ ledger.after[id].exists
                  /\ ledger.after[id].balance
                        = BalanceOf(ledger.before, id) + FeesTo(ledger.ft, id)
                          - (IF ledger.before[id].exists THEN 0
                             ELSE account_creation_fee)
                  /\ id \in ledger.new_accounts <=> ~ledger.before[id].exists

\* the first receiver may not receive and the second is a new account
C29_Witness ==
    /\ ledger.op = "fee_transfer_applied" /\ ledger.res = "Failed"
    /\ ledger.failures = << <<"UpdateNotPermittedBalance">>, <<>> >>
    /\ ledger.burned_tokens = 2
    /\ ledger.new_accounts = {"B"} /\ ledger.after["B"].balance = 1

\* two transfers to one receiver that may not receive
C29_SameReceiverBurned ==
    /\ ledger.op = "fee_transfer_applied" /\ ledger.res = "Failed"
    /\ Len(ledger.ft) = 2 /\ ledger.ft[1].receiver = ledger.ft[2].receiver
    /\ ledger.burned_tokens = 3 /\ Len(ledger.failures) = 2


----------------------------------------------------------------------------
(* Coinbases *)

CoinbaseErr(l, why) ==
    [res |-> why, failures |-> <<>>, new_accounts |-> {}, burned_tokens |-> 0,
     ledger |-> l]

\* the fee transfer of apply_coinbase: cb.fee_transfer is <<>> or holds one
\* fee transfer
coinbase_fee_transfer(l, cb) ==
    IF cb.fee_transfer = <<>>
    THEN [err |-> "None", receiver_reward |-> cb.amount, new_accounts |-> {},
          transferee_update |-> <<>>, timing_prev |-> FALSE,
          failures |-> failures_empty, burned_tokens |-> 0]
    ELSE LET ft == cb.fee_transfer[1]
             fee == ft.fee
             errOf(why) == [err |-> why, receiver_reward |-> 0, new_accounts |-> {},
                            transferee_update |-> <<>>, timing_prev |-> FALSE,
                            failures |-> failures_empty, burned_tokens |-> 0]
             r == has_permission_to_receive(l, ft.receiver_pk)
             timing == update_timing_when_no_deduction(r.account)
             amount == sub_account_creation_fee(r.action, fee)
             balance == IF amount = -1 THEN -1
                        ELSE balance_add_amount(r.account.balance, amount)
         IN  IF fee > cb.amount THEN errOf("Coinbase fee transfer too large")
             ELSE IF timing.err # "None" \/ balance = -1 THEN errOf("Err")
             ELSE IF r.can_receive
             THEN [err |-> "None", receiver_reward |-> cb.amount - fee,
                   new_accounts |-> get_new_accounts(r.action, ft.receiver_pk),
                   transferee_update |->
                       << [id |-> ft.receiver_pk,
                           account |-> [r.account EXCEPT !.balance = balance,
                                                         !.timing = timing.timing]] >>,
                   timing_prev |-> TRUE,
                   failures |-> append_entry(no_failure, failures_empty),
                   burned_tokens |-> 0]
             ELSE [err |-> "None", receiver_reward |-> cb.amount - fee,
                   new_accounts |-> {}, transferee_update |-> <<>>,
                   timing_prev |-> FALSE, failures |-> single_failure,
                   burned_tokens |-> fee]

\* apply_coinbase
apply_coinbase_result(l, cb) ==
    LET t == coinbase_fee_transfer(l, cb)
        r == has_permission_to_receive(l, cb.receiver)
        new_accounts2 == get_new_accounts(r.action, cb.receiver)
        timing == IF t.timing_prev
                  THEN [err |-> "None", timing |-> r.account.timing]
                  ELSE update_timing_when_no_deduction(r.account)
        amount == sub_account_creation_fee(r.action, t.receiver_reward)
        receiver_balance == IF amount = -1 THEN -1
                            ELSE balance_add_amount(r.account.balance, amount)
        l1 == IF r.can_receive
              THEN set_with_location(l, cb.receiver,
                      [r.account EXCEPT !.balance = receiver_balance,
                                        !.timing = timing.timing])
              ELSE l
        failures == IF r.can_receive THEN append_entry(no_failure, t.failures)
                    ELSE append_entry(update_failed, t.failures)
        burned_tokens2 == IF r.can_receive THEN 0 ELSE t.receiver_reward
        l2 == IF t.transferee_update = <<>> THEN l1
              ELSE set_with_location(l1, t.transferee_update[1].id,
                                     t.transferee_update[1].account)
        burned_tokens == checked_add(t.burned_tokens, burned_tokens2)
    IN  IF t.err # "None" THEN CoinbaseErr(l, t.err)
        ELSE IF timing.err # "None" \/ receiver_balance = -1 THEN CoinbaseErr(l, "Err")
        ELSE IF burned_tokens = -1 THEN CoinbaseErr(l2, "Err")
        ELSE [res |-> IF failures_is_empty(failures) THEN "Applied" ELSE "Failed",
              failures |-> failures,
              new_accounts |-> t.new_accounts \cup new_accounts2,
              burned_tokens |-> burned_tokens, ledger |-> l2]

\* a coinbase to A or B, with or without a fee transfer to the other
Coinbases ==
    { [receiver |-> r, amount |-> a, fee_transfer |-> <<>>] :
         r \in AccountIds, a \in 0..MaxBalance }
    \cup { [receiver |-> r, amount |-> a,
            fee_transfer |-> << [receiver_pk |-> t, fee |-> f] >>] :
              r \in AccountIds, t \in AccountIds, a \in 0..MaxBalance, f \in 0..MaxFee }

CoinbaseInit ==
    /\ sync = SyncIdle
    /\ frontier = <<>>
    /\ blacklist = {}
    /\ verified = None
    /\ won_slot = {}
    /\ peers = [p \in Peers |-> [ready |-> FALSE, best_tip |-> None]]
    /\ rpc = [p \in Peers |-> [inflight |-> 0, next_id |-> 1]]
    /\ snark = [p \in Peers |-> [j \in Jobs |-> NoCandidate]]
    /\ last = EnvNote
    /\ node = NodeInit /\ conn = ConnIdle /\ inbound = InboundIdle
    /\ outbound = OutboundIdle /\ events = EventsIdle
    /\ testing = TestingIdle /\ pool = PoolIdle /\ core = CoreIdle /\ work_verify = WorkVerifyIdle
    /\ webrtc = WebrtcIdle
    /\ \E a \in TransferAccounts, b \in TransferAccounts, cb \in Coinbases :
          /\ cb.fee_transfer # <<>> => cb.fee_transfer[1].receiver_pk # cb.receiver
          /\ ledger = [op |-> "coinbase", cb |-> cb,
                       before |-> [id \in AccountIds |-> IF id = "A" THEN a ELSE b]]

apply_coinbase ==
    /\ ledger.op = "coinbase"
    /\ LET r == apply_coinbase_result(ledger.before, ledger.cb)
       IN  ledger' = [op |-> "coinbase_applied", cb |-> ledger.cb,
                      before |-> ledger.before, after |-> r.ledger, res |-> r.res,
                      failures |-> r.failures, new_accounts |-> r.new_accounts,
                      burned_tokens |-> r.burned_tokens]
    /\ ledgerFrame

CoinbaseNext == apply_coinbase

SpecCoinbase == CoinbaseInit /\ [][CoinbaseNext]_vars

CoinbaseApplied ==
    ledger.op = "coinbase_applied" /\ ledger.res \in {"Applied", "Failed"}

HasTransfer == ledger.cb.fee_transfer # <<>>

\* the share of an account in the coinbase
Share(id) ==
    IF id = ledger.cb.receiver
    THEN ledger.cb.amount - (IF HasTransfer THEN ledger.cb.fee_transfer[1].fee ELSE 0)
    ELSE IF HasTransfer /\ id = ledger.cb.fee_transfer[1].receiver_pk
    THEN ledger.cb.fee_transfer[1].fee
    ELSE 0

Credited(id) == BalanceOf(ledger.after, id) - BalanceOf(ledger.before, id)

CreationFee(id) ==
    IF ~ledger.before[id].exists /\ ledger.after[id].exists
    THEN account_creation_fee ELSE 0

\* what is burned of the share of an account
Burned(id) == IF CanReceive(id) THEN 0 ELSE Share(id)

\* C30: in an applied coinbase the transferee's share is the fee and the
\* receiver's share the amount less the fee; a share is credited to its
\* account, less the account creation fee when the account is new, or burned
\* in full when the account cannot receive; what is credited, the account
\* creation fees and burned_tokens add up to the amount; a fee larger than the
\* amount is a hard error.
C30_SharesCreditedOrBurned ==
    /\ CoinbaseApplied =>
          /\ \A id \in AccountIds :
                /\ Share(id) >= 0
                /\ CanReceive(id) => Credited(id) + CreationFee(id) = Share(id)
                /\ ledger.after[id].exists /\ ~ledger.before[id].exists
                      <=> id \in ledger.new_accounts
                /\ ~CanReceive(id) => ledger.after[id] = ledger.before[id]
          /\ ledger.burned_tokens = Burned("A") + Burned("B")
          /\ Credited("A") + Credited("B") + CreationFee("A") + CreationFee("B")
                + ledger.burned_tokens = ledger.cb.amount
    /\ (ledger.op = "coinbase_applied" /\ HasTransfer
           /\ ledger.cb.fee_transfer[1].fee > ledger.cb.amount)
          => /\ ledger.res = "Coinbase fee transfer too large"
             /\ ledger.after = ledger.before

\* the transferee is a new account and the receiver cannot receive
C30_Witness ==
    /\ CoinbaseApplied /\ HasTransfer
    /\ ledger.cb.amount = 3 /\ ledger.cb.fee_transfer[1].fee = 2
    /\ ledger.new_accounts = {ledger.cb.fee_transfer[1].receiver_pk}
    /\ Credited(ledger.cb.fee_transfer[1].receiver_pk) = 1
    /\ ledger.burned_tokens = 1
    /\ ledger.failures = << <<>>, <<"UpdateNotPermittedBalance">> >>

\* the fee is larger than the amount
C30_FeeTooLarge ==
    /\ ledger.op = "coinbase_applied"
    /\ ledger.res = "Coinbase fee transfer too large"


----------------------------------------------------------------------------
(* The minimum balance of a debited account *)

\* the fee payer's account was written: the fee at least was deducted
Debited ==
    /\ ledger.op = "signed_command_applied"
    /\ ledger.after[ledger.cmd.fee_payer] # ledger.before[ledger.cmd.fee_payer]

\* min_balance_at_slot of the account at the slot of the transaction
MinBalanceAtSlot(account) == IF account.timing.timed THEN account.timing.min ELSE 0

\* C31: an account debited by a transaction (the fee, or the fee and the
\* amount of a payment) keeps a balance of at least its minimum balance at the
\* current slot: each deduction succeeds only if the balance less the amount
\* is at least that minimum; the timing of the account becomes Untimed exactly
\* when the minimum is zero.
C31_DebitedKeepsMinimumBalance ==
    Debited =>
        LET id == ledger.cmd.fee_payer
            before == ledger.before[id]
            after == ledger.after[id]
            min == MinBalanceAtSlot(before)
        IN  /\ after.balance >= min
            /\ before.balance - ledger.cmd.fee >= min
            /\ (ledger.res = "Applied" /\ ledger.cmd.body = "Payment")
                  => before.balance - ledger.cmd.fee - ledger.cmd.amount >= min
            /\ after.timing = Untimed <=> min = 0
            /\ min > 0 => after.timing = before.timing

\* a timed account pays a fee and an amount down to its minimum balance
C31_Witness ==
    /\ Debited /\ ledger.res = "Applied" /\ ledger.cmd.body = "Payment"
    /\ ledger.cmd.receiver # ledger.cmd.fee_payer
    /\ ledger.before["A"].timing = Timed(1) /\ ledger.before["A"].balance = 3
    /\ ledger.cmd.fee = 1 /\ ledger.cmd.amount = 1
    /\ ledger.after["A"].balance = 1 /\ ledger.after["A"].timing = Timed(1)

\* a timed account whose minimum balance is zero becomes untimed
C31_BecomesUntimed ==
    /\ Debited /\ ledger.before["A"].timing = Timed(0)
    /\ ledger.after["A"].timing = Untimed


----------------------------------------------------------------------------
(* The work dir of the process *)

\* calls a thread makes before the model stops it
MaxCalls == 2

Threads == {"t1", "t2"}

Dirs == {"d1", "d2"}

coreFrame == UNCHANGED <<syncVars, node, conn, inbound, outbound, events, testing,
                         ledger, pool, work_verify, webrtc>>

\* the mutant stores the path in a cell that is set already
Mut_HOME_DIR_set(cell, dir) == [ok |-> TRUE, value |-> dir]

\* HOME_DIR.set(dir) on a cell no thread is initializing: Err when the cell
\* is set
HOME_DIR_set(cell, dir) ==
    IF cell.state = "Complete" THEN [ok |-> FALSE, value |-> cell.value]
    ELSE [ok |-> TRUE, value |-> dir]

\* HOME_DIR.get(): the path of a cell that is set, "none" otherwise
HOME_DIR_get(cell) == IF cell.state = "Complete" THEN cell.value ELSE "none"

Called(t, op, dir) ==
    [core.threads[t] EXCEPT !.op = op, !.dir = dir]

\* set_work_dir(dir) up to the point where HOME_DIR.set takes the cell, finds
\* it set, or finds another thread initializing it
set_work_dir(t, dir) ==
    /\ core.threads[t].pc = "idle" /\ core.threads[t].calls < MaxCalls
    /\ LET r == HOME_DIR_set(core, dir)
           me == Called(t, "set", dir)
       IN  core' =
             IF core.state = "Running"
             THEN [core EXCEPT !.threads[t] = [me EXCEPT !.pc = "waiting"]]
             ELSE IF ~r.ok
             THEN [core EXCEPT !.threads[t] = [me EXCEPT !.pc = "panicked"]]
             ELSE IF core.state = "Complete"
             THEN [core EXCEPT !.value = r.value,
                               !.threads[t] = [me EXCEPT !.calls = @ + 1]]
             ELSE [core EXCEPT !.state = "Running",
                               !.threads[t] = [me EXCEPT !.pc = "setting"]]
    /\ coreFrame

\* the thread that took the cell stores its path and returns
set_work_dir_store(t) ==
    /\ core.threads[t].pc = "setting"
    /\ core' = [core EXCEPT !.state = "Complete",
                            !.value = core.threads[t].dir,
                            !.first = core.threads[t].dir,
                            !.threads[t].pc = "idle",
                            !.threads[t].calls = @ + 1]
    /\ coreFrame

\* a thread that found the cell being initialized goes on when it is set
set_work_dir_raced(t) ==
    /\ core.threads[t].pc = "waiting" /\ core.state = "Complete"
    /\ LET r == HOME_DIR_set(core, core.threads[t].dir)
       IN  core' = IF r.ok
                   THEN [core EXCEPT !.value = r.value, !.threads[t].pc = "idle",
                                     !.threads[t].calls = @ + 1]
                   ELSE [core EXCEPT !.threads[t].pc = "panicked"]
    /\ coreFrame

\* get_work_dir(): the path, or a panic when the cell is not set
get_work_dir(t) ==
    /\ core.threads[t].pc = "idle" /\ core.threads[t].calls < MaxCalls
    /\ LET got == HOME_DIR_get(core)
           me == Called(t, "get", core.threads[t].dir)
       IN  core' = IF got = "none"
                   THEN [core EXCEPT !.threads[t] = [me EXCEPT !.pc = "panicked"]]
                   ELSE [core EXCEPT !.threads[t] =
                                        [me EXCEPT !.got = got, !.calls = @ + 1]]
    /\ coreFrame

CoreInit ==
    /\ sync = SyncIdle
    /\ frontier = <<>>
    /\ blacklist = {}
    /\ verified = None
    /\ won_slot = {}
    /\ peers = [p \in Peers |-> [ready |-> FALSE, best_tip |-> None]]
    /\ rpc = [p \in Peers |-> [inflight |-> 0, next_id |-> 1]]
    /\ snark = [p \in Peers |-> [j \in Jobs |-> NoCandidate]]
    /\ last = EnvNote
    /\ OtherIdle

CoreNext ==
    \/ \E t \in Threads, dir \in Dirs : set_work_dir(t, dir)
    \/ \E t \in Threads : set_work_dir_store(t)
    \/ \E t \in Threads : set_work_dir_raced(t)
    \/ \E t \in Threads : get_work_dir(t)

SpecCore == CoreInit /\ [][CoreNext]_vars

\* thread t returned from a call in this step
Returned(t) == core'.threads[t].calls = core.threads[t].calls + 1

\* thread t panicked in this step
Panicked(t) == core.threads[t].pc # "panicked" /\ core'.threads[t].pc = "panicked"

\* C32: the work dir is write-once: once a set_work_dir(d) has stored d the
\* stored path never changes and every get_work_dir returns d; a set_work_dir
\* that comes later or loses a race panics; get_work_dir panics while the
\* path is not set.
C32_WorkDirWriteOnce ==
    [][ /\ core.state = "Complete"
           => /\ core'.state = "Complete"
              /\ core'.value = core.value
              /\ core.value = core.first
        /\ \A t \in Threads :
              /\ (Returned(t) /\ core'.threads[t].op = "get")
                    => /\ core.state = "Complete"
                       /\ core'.threads[t].got = core.first
              /\ (Returned(t) /\ core'.threads[t].op = "set")
                    => /\ core.state # "Complete"
                       /\ core'.first = core'.threads[t].dir
              /\ (core.state = "Complete" /\ core.threads[t].pc = "idle"
                     /\ core'.threads[t] # core.threads[t]
                     /\ core'.threads[t].op = "set")
                    => Panicked(t)
              /\ (core.threads[t].pc = "waiting"
                     /\ core'.threads[t] # core.threads[t])
                    => Panicked(t)
              /\ (core.state # "Complete" /\ core'.threads[t] # core.threads[t]
                     /\ core.threads[t].pc = "idle"
                     /\ core'.threads[t].op = "get")
                    => Panicked(t)
      ]_vars

\* one thread set the path, the other lost the race and panicked, and the
\* first then read the path it had set
C32_Witness ==
    /\ core.state = "Complete" /\ core.first = "d1"
    /\ core.threads["t1"].got = "d1"
    /\ core.threads["t2"].pc = "panicked" /\ core.threads["t2"].dir = "d2"
    /\ core.threads["t2"].op = "set"

\* a thread read the path before it was set
C32_GetBeforeSet ==
    /\ core.state # "Complete"
    /\ \E t \in Threads : core.threads[t].pc = "panicked" /\ core.threads[t].op = "get"


----------------------------------------------------------------------------
(* The cost of a read request to the ledger service *)

LEDGER_DEPTH == 35

LedgerReadKinds ==
    {"DelegatorTable", "GetNumAccounts", "GetAccounts", "GetChildHashesAtAddr",
     "GetChildAccountsAtAddr", "GetStagedLedgerAuxAndPendingCoinbases",
     "ScanStateSummary", "AccountsForRpc", "GetLedgerStatus", "GetAccountDelegators"}

\* a u32 as two halves of 16 bits, the high one first
Half == 65536

\* 2_u32.pow(exp): the low 32 bits of 2^exp, and whether bits were lost
u32_pow2(exp) ==
    IF exp < 16 THEN [hi |-> 0, lo |-> 2^exp, overflow |-> FALSE]
    ELSE IF exp < 32 THEN [hi |-> 2^(exp - 16), lo |-> 0, overflow |-> FALSE]
    ELSE [hi |-> 0, lo |-> 0, overflow |-> TRUE]

\* x / 4 of a u32, as a number
u32_div4(x) == (x.hi \div 4) * Half + ((x.hi % 4) * Half + x.lo) \div 4

saturating_sub(a, b) == IF a >= b THEN a - b ELSE 0

max(a, b) == IF a >= b THEN a ELSE b

\* the arm of GetChildAccountsAtAddr: -1 is the panic of a build that checks
\* overflow
child_accounts_cost(addr_length, overflow_checks) ==
    LET height_diff == saturating_sub(LEDGER_DEPTH, addr_length)
        max_accounts_count == u32_pow2(height_diff)
    IN  IF max_accounts_count.overflow /\ overflow_checks THEN -1
        ELSE u32_div4(max_accounts_count)

\* LedgerReadRequest::cost
cost(req, overflow_checks) ==
    LET c == CASE req.kind = "DelegatorTable" -> 100
               [] req.kind = "GetNumAccounts" -> 1
               [] req.kind = "GetAccounts" -> 10
               [] req.kind = "GetChildAccountsAtAddr"
                     -> child_accounts_cost(req.addr_length, overflow_checks)
               [] req.kind = "GetChildHashesAtAddr" -> 1
               [] req.kind = "GetStagedLedgerAuxAndPendingCoinbases" -> 100
               [] req.kind = "ScanStateSummary" -> 100
               [] req.kind = "AccountsForRpc" -> 10
               [] req.kind = "GetLedgerStatus" -> 1
               [] req.kind = "GetAccountDelegators" -> 10
    IN  IF c = -1 THEN -1 ELSE max(c, 1)

\* the requests: those at an address have its length, the others length 0
LedgerReadRequests ==
    { [kind |-> k, addr_length |-> l] :
        k \in {"GetChildHashesAtAddr", "GetChildAccountsAtAddr"},
        l \in 0..LEDGER_DEPTH }
    \cup { [kind |-> k, addr_length |-> 0] : k \in LedgerReadKinds }

ReadCostInit ==
    /\ sync = SyncIdle
    /\ frontier = <<>>
    /\ blacklist = {}
    /\ verified = None
    /\ won_slot = {}
    /\ peers = [p \in Peers |-> [ready |-> FALSE, best_tip |-> None]]
    /\ rpc = [p \in Peers |-> [inflight |-> 0, next_id |-> 1]]
    /\ snark = [p \in Peers |-> [j \in Jobs |-> NoCandidate]]
    /\ last = EnvNote
    /\ node = NodeInit /\ conn = ConnIdle /\ inbound = InboundIdle
    /\ outbound = OutboundIdle /\ events = EventsIdle
    /\ testing = TestingIdle /\ pool = PoolIdle /\ core = CoreIdle /\ work_verify = WorkVerifyIdle
    /\ webrtc = WebrtcIdle
    /\ \E req \in LedgerReadRequests, overflow_checks \in BOOLEAN :
          ledger = [op |-> "read_request", req |-> req,
                    overflow_checks |-> overflow_checks]

request_cost ==
    /\ ledger.op = "read_request"
    /\ ledger' = [op |-> "read_cost", req |-> ledger.req,
                  overflow_checks |-> ledger.overflow_checks,
                  cost |-> cost(ledger.req, ledger.overflow_checks)]
    /\ ledgerFrame

ReadCostNext == request_cost

SpecReadCost == ReadCostInit /\ [][ReadCostNext]_vars

Pow2(n) == 2^n

\* c = max(1, 2^(35 - l) / 4); a cost of the model is below 2^31
IsStatedCost(c, l) ==
    IF LEDGER_DEPTH - l < 2 THEN c = 1
    ELSE LEDGER_DEPTH - l - 2 < 31 /\ c = Pow2(LEDGER_DEPTH - l - 2)

\* C33 as stated: the cost is at least 1 and is computed without overflow;
\* it is 1 for child hashes, 100 for the delegator table and for the staged
\* ledger aux; for the child accounts at an address of length l it is
\* max(1, 2^(35-l)/4), so that a larger sub-tree never costs less than a
\* smaller one.
C33_Stated_CostOfChildAccounts ==
    ledger.op = "read_cost" =>
        /\ ledger.cost >= 1
        /\ ledger.req.kind = "GetChildHashesAtAddr" => ledger.cost = 1
        /\ ledger.req.kind = "DelegatorTable" => ledger.cost = 100
        /\ ledger.req.kind = "GetStagedLedgerAuxAndPendingCoinbases"
              => ledger.cost = 100
        /\ ledger.req.kind = "GetChildAccountsAtAddr"
              => /\ IsStatedCost(ledger.cost, ledger.req.addr_length)
                 /\ \A l \in ledger.req.addr_length..LEDGER_DEPTH :
                       cost([kind |-> "GetChildAccountsAtAddr", addr_length |-> l],
                            ledger.overflow_checks) <= ledger.cost

\* the child accounts of the root, in a build that wraps on overflow, cost 1
C33_RootCostsOne ==
    /\ ledger.op = "read_cost" /\ ledger.req.kind = "GetChildAccountsAtAddr"
    /\ ledger.req.addr_length = 0 /\ ~ledger.overflow_checks
    /\ ledger.cost = 1

\* what holds of the cost: the fixed costs are as stated, and the cost of the
\* child accounts is as stated for every address of length 4 and more
C33_CostFromLengthFour ==
    ledger.op = "read_cost" =>
        /\ ledger.req.kind = "GetChildHashesAtAddr" => ledger.cost = 1
        /\ ledger.req.kind = "DelegatorTable" => ledger.cost = 100
        /\ ledger.req.kind = "GetStagedLedgerAuxAndPendingCoinbases"
              => ledger.cost = 100
        /\ (ledger.req.kind = "GetChildAccountsAtAddr" /\ ledger.req.addr_length >= 4)
              => IsStatedCost(ledger.cost, ledger.req.addr_length)
        /\ (ledger.req.kind = "GetChildAccountsAtAddr" /\ ledger.req.addr_length < 4)
              => ledger.cost = IF ledger.overflow_checks THEN -1 ELSE 1


----------------------------------------------------------------------------
(* The two passes of a list of transactions *)

\* the longest list of transactions
MaxTxns == 3

\* a transaction, by its kind and by the pass that returns a hard error;
\* the second pass of a zkApp command only can return one
Transactions ==
    [kind : {"SignedCommand", "ZkappCommand", "FeeTransfer", "Coinbase"},
     fails : {"none", "first"}]
    \cup [kind : {"ZkappCommand"}, fails : {"second"}]

\* apply_transaction_first_pass: Ok with the partially applied transaction,
\* or the error
apply_transaction_first_pass(txn) == IF txn.fails = "first" THEN "Err" ELSE "Ok"

\* apply_transaction_second_pass
apply_transaction_second_pass(txn) ==
    IF txn.kind = "ZkappCommand" /\ txn.fails = "second" THEN "Err" ELSE "Ok"

\* the mutant goes on after an error
Mut_collect_stops(r) == FALSE

\* collect::<Result<Vec<_>, _>>() ends the iteration at the first Err
collect_stops(r) == r = "Err"

\* the passes whose effects the ledger holds
Effects(log) == { <<log[k].pass, log[k].idx>> : k \in { k \in DOMAIN log : log[k].r = "Ok" } }

\* one step of the first map: the first pass of the next transaction
first_pass ==
    /\ ledger.op = "apply_transactions" /\ ledger.pc = "first"
    /\ ledger.i <= Len(ledger.txns)
    /\ LET r == apply_transaction_first_pass(ledger.txns[ledger.i])
           log == Append(ledger.log,
                         [pass |-> 1, idx |-> ledger.i, r |-> r,
                          seen |-> Effects(ledger.log)])
       IN  ledger' = IF collect_stops(r)
                     THEN [ledger EXCEPT !.log = log, !.pc = "done", !.res = "Err"]
                     ELSE [ledger EXCEPT !.log = log, !.i = @ + 1]
    /\ ledgerFrame

\* the first collect is done: the second map starts
first_pass_collected ==
    /\ ledger.op = "apply_transactions" /\ ledger.pc = "first"
    /\ ledger.i > Len(ledger.txns)
    /\ ledger' = [ledger EXCEPT !.pc = "second", !.i = 1]
    /\ ledgerFrame

\* one step of the second map: the second pass of the next transaction
second_pass ==
    /\ ledger.op = "apply_transactions" /\ ledger.pc = "second"
    /\ ledger.i <= Len(ledger.txns)
    /\ LET r == apply_transaction_second_pass(ledger.txns[ledger.i])
           log == Append(ledger.log,
                         [pass |-> 2, idx |-> ledger.i, r |-> r,
                          seen |-> Effects(ledger.log)])
       IN  ledger' = IF collect_stops(r)
                     THEN [ledger EXCEPT !.log = log, !.pc = "done", !.res = "Err"]
                     ELSE [ledger EXCEPT !.log = log, !.i = @ + 1]
    /\ ledgerFrame

\* the second collect is done
second_pass_collected ==
    /\ ledger.op = "apply_transactions" /\ ledger.pc = "second"
    /\ ledger.i > Len(ledger.txns)
    /\ ledger' = [ledger EXCEPT !.pc = "done",
                                !.res = IF ledger.res = "None" THEN "Ok" ELSE @]
    /\ ledgerFrame

TransactionsInit ==
    /\ sync = SyncIdle
    /\ frontier = <<>>
    /\ blacklist = {}
    /\ verified = None
    /\ won_slot = {}
    /\ peers = [p \in Peers |-> [ready |-> FALSE, best_tip |-> None]]
    /\ rpc = [p \in Peers |-> [inflight |-> 0, next_id |-> 1]]
    /\ snark = [p \in Peers |-> [j \in Jobs |-> NoCandidate]]
    /\ last = EnvNote
    /\ node = NodeInit /\ conn = ConnIdle /\ inbound = InboundIdle
    /\ outbound = OutboundIdle /\ events = EventsIdle
    /\ testing = TestingIdle /\ pool = PoolIdle /\ core = CoreIdle /\ work_verify = WorkVerifyIdle
    /\ webrtc = WebrtcIdle
    /\ \E n \in 0..MaxTxns : \E txns \in [1..n -> Transactions] :
          ledger = [op |-> "apply_transactions", txns |-> txns, pc |-> "first",
                    i |-> 1, log |-> <<>>, res |-> "None"]

TransactionsNext ==
    \/ first_pass
    \/ first_pass_collected
    \/ second_pass
    \/ second_pass_collected

SpecTransactions == TransactionsInit /\ [][TransactionsNext]_vars

\* C34: apply_transactions runs the first pass of every transaction in the
\* order of the list before any second pass, then the second passes in the
\* same order, so that each second pass sees the first pass of every
\* transaction of the list; it stops at the first hard error: no pass runs
\* after it and it is the result.
C34_FirstPassesThenSecondPasses ==
    ledger.op = "apply_transactions" =>
        LET log == ledger.log
            n == Len(ledger.txns)
        IN  /\ \A k \in DOMAIN log :
                  /\ log[k].pass = 1 => log[k].idx = k
                  /\ log[k].pass = 2
                        => /\ k > n /\ log[k].idx = k - n
                           /\ { <<1, j>> : j \in 1..n } \subseteq log[k].seen
                  /\ log[k].r = "Err"
                        => /\ k = Len(log)
                           /\ ledger.pc = "done" /\ ledger.res = "Err"
            /\ ledger.res = "Ok" => ledger.pc = "done" /\ Len(log) = 2 * n
            /\ (ledger.pc = "done" /\ ledger.res = "Err")
                  => log # <<>> /\ log[Len(log)].r = "Err"

\* the second pass of the first of three transactions fails after the first
\* passes of all three
C34_Witness ==
    /\ ledger.op = "apply_transactions" /\ ledger.pc = "done" /\ ledger.res = "Err"
    /\ Len(ledger.txns) = 3 /\ Len(ledger.log) = 4
    /\ ledger.log[4].pass = 2 /\ ledger.log[4].idx = 1
    /\ <<1, 3>> \in ledger.log[4].seen

\* the first pass of the second transaction fails
C34_FirstPassFails ==
    /\ ledger.op = "apply_transactions" /\ ledger.pc = "done" /\ ledger.res = "Err"
    /\ Len(ledger.txns) = 3 /\ Len(ledger.log) = 2 /\ ledger.log[2].pass = 1


----------------------------------------------------------------------------
(* The end of the handler's loop *)

\* C35 as stated: handling one callback ends: every turn of the handler's
\* loop takes at least one byte of the callback's data, also when fewer than
\* 4 bytes stand at the start of a frame, when the declared length is over
\* the limit and when a complete frame does not decode.
C35_Stated_EveryTurnConsumes ==
    [][inbound.data # <<>> => Len(inbound'.data) < Len(inbound.data)]_vars

\* the handler has sent the same error twice and the data is still there
C35_SameErrorAgain ==
    /\ Len(inbound.delivered) >= 2 /\ inbound.data # <<>> /\ Len(inbound.data) < 4
    /\ inbound.buf = <<>>
    /\ inbound.delivered[Len(inbound.delivered)] = "WebRTCMessageTooSmall"
    /\ inbound.delivered[Len(inbound.delivered) - 1] = "WebRTCMessageTooSmall"

\* a turn that reports a length over the limit takes the 4 bytes of the
\* prefix, and a turn that reports nothing or a message takes bytes as well
C35_OtherTurnsConsume ==
    [][(inbound.data # <<>> /\ inbound'.data # inbound.data
          /\ Len(inbound'.delivered) > Len(inbound.delivered)
          /\ inbound'.delivered[Len(inbound'.delivered)] = "ChannelMsgLenOverLimit")
         => Len(inbound'.data) = Len(inbound.data) - 4]_vars


----------------------------------------------------------------------------
(* The ids of the pending events *)

\* C36 as stated: the id add gives an event differs from the id of every
\* other event that is or was pending, so that take_pending_event(id) returns
\* the event the id was issued for.
C36_Stated_IdsIdentifyEvents ==
    /\ \A i, j \in DOMAIN testing.issued :
          i # j => testing.issued[i] # testing.issued[j]
    /\ \A k \in DOMAIN testing.taken : testing.taken[k].got = testing.taken[k].asked

\* two events are pending under one id
C36_TwoEventsOneId ==
    /\ Len(testing.pending_events) = 2
    /\ testing.pending_events[1].id = testing.pending_events[2].id
    /\ testing.pending_events[1].event # testing.pending_events[2].event

\* the id issued for the second event took the first
C36_TookAnotherEvent ==
    \E k \in DOMAIN testing.taken : testing.taken[k].got # testing.taken[k].asked


----------------------------------------------------------------------------
(* The unwraps of next_pending_event *)

C37_WaitWithRequestWaiting ==
    /\ ~testing.in_next /\ testing.returned = "Det" /\ testing.rpc_rx > 0


----------------------------------------------------------------------------
(* The ledger after a hard error of a signed command *)

\* C38 as stated: when applying a signed command returns a hard error, the
\* reject-command path included, the ledger is as it was before the call: no
\* fee is charged, no nonce consumed and no account created.
C38_Stated_HardErrorLeavesLedger ==
    (SignedCommandApplied /\ ledger.res = "Err") => ledger.after = ledger.before

\* a rejected payment has left the fee charged and the nonce consumed
C38_RejectedCharged ==
    /\ SignedCommandApplied /\ ledger.res = "Err"
    /\ ledger.failure = "SourceInsufficientBalance"
    /\ ledger.after["A"].balance = ledger.before["A"].balance - ledger.cmd.fee
    /\ ledger.after["A"].nonce = ledger.before["A"].nonce + 1

\* the hard errors found before the fee is charged leave the ledger as it was
C38_EarlyErrorsLeaveLedger ==
    (SignedCommandApplied /\ ledger.res = "Err"
        /\ ledger.failure \notin {"SourceInsufficientBalance",
                                  "SourceMinimumBalanceViolation"})
       => ledger.after = ledger.before

----------------------------------------------------------------------------
(* The connections initiated to one peer id, one after the other *)

webrtcFrame ==
    UNCHANGED <<syncVars, node, conn, inbound, outbound, events, testing, ledger, pool,
                core, work_verify>>

Gens == 1..MaxInits

\* an entry of the history: an initiation, or an event of connection gen
Initiated(gen) == [gen |-> gen, event |-> "init"]

Event(gen, event) == [gen |-> gen, event |-> event]

\* the Aborter of the connection dropped: its PeerState left the peers map
webrtc_aborted(w, gen) == gen <= w.inits /\ w.peers # gen

\* outgoing_init, incoming_init: the entry of the peer id is inserted, which
\* drops the entry that was there, and Cmd::PeerAdd is sent
peer_init(kind) ==
    /\ webrtc.inits < MaxInits
    /\ LET gen == webrtc.inits + 1
       IN  webrtc' = [webrtc EXCEPT
                        !.peers = gen,
                        !.inits = gen,
                        !.cmds = Append(@, [gen |-> gen, kind |-> kind]),
                        !.log = Append(@, Initiated(gen))]
    /\ webrtcFrame

\* disconnect: the entry is removed
peer_disconnect ==
    /\ webrtc.peers # 0
    /\ webrtc' = [webrtc EXCEPT !.peers = 0]
    /\ webrtcFrame

\* the service's loop receives Cmd::PeerAdd and spawns its task, which takes a
\* permit (there are MAX_PEERS), spawns the task that emits Closed and enters
\* the select
cmd_peer_add ==
    /\ webrtc.cmds # <<>>
    /\ LET cmd == Head(webrtc.cmds)
       IN  webrtc' = [webrtc EXCEPT
                        !.cmds = Tail(@),
                        !.tasks[cmd.gen] = [pc |-> "Select", stage |-> 0,
                                            closed |-> "Waiting"]]
    /\ webrtcFrame

\* peer_start in the select emits the next event of the connection; once the
\* Aborter dropped the select ends before peer_start gets further
select_peer_start(gen) ==
    /\ webrtc.tasks[gen].pc = "Select" /\ ~webrtc_aborted(webrtc, gen)
    /\ webrtc.tasks[gen].stage < 2
    /\ webrtc' = [webrtc EXCEPT
                    !.tasks[gen].stage = @ + 1,
                    !.log = Append(@, Event(gen, IF webrtc.tasks[gen].stage = 0
                                                 THEN "SdpReady" ELSE "Finalized"))]
    /\ webrtcFrame

\* the select ends: peer_start returned, or aborted.wait() did
select_done(gen) ==
    /\ webrtc.tasks[gen].pc = "Select"
    /\ webrtc' = [webrtc EXCEPT !.tasks[gen].pc = "Sleep"]
    /\ webrtcFrame

\* the task after the select and the delay of 100 ms: closed_tx.send(())
closed_tx_send(gen) ==
    /\ webrtc.tasks[gen].pc = "Sleep"
    /\ webrtc' = [webrtc EXCEPT !.tasks[gen].pc = "Done",
                                !.tasks[gen].closed = "Received"]
    /\ webrtcFrame

\* the task spawned for closed.recv(): it emits Closed(peer_id)
closed_task(gen) ==
    /\ webrtc.tasks[gen].closed = "Received"
    /\ webrtc' = [webrtc EXCEPT
                    !.tasks[gen].closed = "Done",
                    !.log = Append(@, Event(gen, "Closed"))]
    /\ webrtcFrame

ReinitInit ==
    /\ sync = SyncIdle
    /\ frontier = <<>>
    /\ blacklist = {}
    /\ verified = None
    /\ won_slot = {}
    /\ peers = [p \in Peers |-> [ready |-> FALSE, best_tip |-> None]]
    /\ rpc = [p \in Peers |-> [inflight |-> 0, next_id |-> 1]]
    /\ snark = [p \in Peers |-> [j \in Jobs |-> NoCandidate]]
    /\ last = EnvNote
    /\ OtherIdle

ReinitNext ==
    \/ \E kind \in {"Outgoing", "Incoming"} : peer_init(kind)
    \/ peer_disconnect
    \/ cmd_peer_add
    \/ \E gen \in Gens : select_peer_start(gen)
    \/ \E gen \in Gens : select_done(gen)
    \/ \E gen \in Gens : closed_tx_send(gen)
    \/ \E gen \in Gens : closed_task(gen)

SpecReinit == ReinitInit /\ [][ReinitNext]_vars

\* the entries of the history that are events, and those of a connection
IsEvent(i) == webrtc.log[i].event # "init"

\* C40: when a connection to the peer id is initiated again, none of the
\* events of the earlier connection's task is delivered after the initiation:
\* every event delivered is of the connection initiated last, and a Closed in
\* particular never follows an event of a later connection.
C40_Stated_EventsOfLatestConnection ==
    \A i, j \in DOMAIN webrtc.log :
        (i < j /\ IsEvent(j)) => webrtc.log[i].gen <= webrtc.log[j].gen

\* the Closed of the earlier connection follows the first event of the later
C40_ClosedOfEarlierAfterEventOfLater ==
    \E i, j \in DOMAIN webrtc.log :
        /\ i < j
        /\ webrtc.log[i] = Event(2, "SdpReady")
        /\ webrtc.log[j] = Event(1, "Closed")

\* what the task of the earlier connection emits after the later initiation
\* is its Closed, once, and nothing else
C40_EarlierEmitsClosedOnly ==
    /\ \A i, j \in DOMAIN webrtc.log :
          (i < j /\ IsEvent(j) /\ webrtc.log[i].gen > webrtc.log[j].gen)
             => webrtc.log[j].event = "Closed"
    /\ \A i, j \in DOMAIN webrtc.log :
          (webrtc.log[i] = webrtc.log[j] /\ webrtc.log[i].event = "Closed") => i = j

=============================================================================
